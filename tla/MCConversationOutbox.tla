----------------------- MODULE MCConversationOutbox -----------------------
(* ConversationOutbox on small instances.  b1 is a template, b2 one or a     *)
(* reply of the AI, and b3 a reply written in the inbox.                     *)
EXTENDS ConversationOutbox

CONSTANTS b1, b2, b3, c1, c2

OneBubble == {b1}
TwoBubbles == {b1, b2}
ThreeBubbles == {b1, b2, b3}
InboxReply == {b3}
NoBubble == {}
OneClick == {c1}
TwoClicks == {c1, c2}
SentOrTransient == {"sent", "transient"}
SentOrPermanent == {"sent", "permanent"}
AnyOutcome == {"sent", "transient", "permanent"}
OnlyFailed == {"failed"}
TwoStatuses == {"delivered", "failed"}
===========================================================================

------------------------------- MODULE MCPush -------------------------------
(* Instances of AnnouncementPush for TLC.                                  *)
EXTENDS AnnouncementPush

CONSTANTS a1, a2, u1, d1, d2

(* Everybody is in the audience of everything.                             *)
MCAudience == [a \in Announcements |-> Users]

(* Nothing expires, or at the end of the time modelled.                    *)
MCExpiries == {MaxTime, Never}

(* One user, perhaps with two devices.                                     *)
MCUserOf == [s \in Subscriptions |-> u1]
=============================================================================

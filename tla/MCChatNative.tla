---------------------------- MODULE MCChatNative ----------------------------
(* Instances of the chat's native lists and tokens for TLC. A room list, a      *)
(* timeline and the tokens of the session share nothing that is modelled, so a  *)
(* behaviour moves one of them; of a timeline, the messages, the pages of older *)
(* ones, or the notices of who types.                                           *)
EXTENDS RoomList, ChatTimeline, ChatTokens, TLC

VARIABLE part

Symmetry == Permutations(Rooms)

\* What does not move starts in one way only.
MCInit ==
    /\ part \in {"rooms", "messages", "paging", "typing", "tokens"}
    /\ RoomsInit /\ TimelineInit /\ TokensInit
    /\ part # "rooms" => recent = CHOOSE s \in Orders : TRUE
    /\ part # "rooms" => \A r \in Rooms : room[r].membership = "joined"
    /\ part # "typing" => typists.now = {}
    /\ part # "tokens" => kind = "issued"

MCNext ==
    /\ UNCHANGED part
    /\ \/ part = "rooms" /\ RoomsNext /\ UNCHANGED <<timelineVars, tokensVars>>
       \/ /\ part \in {"messages", "paging", "typing"} /\ TimelineNext
          /\ part # "typing" => task'["typing"] = "none" /\ UNCHANGED typists
          /\ part = "messages" => ~page'.paginating
          /\ part = "paging" => events' <= 2
          /\ part = "typing" => UNCHANGED items
          /\ UNCHANGED <<roomsVars, tokensVars>>
       \/ part = "tokens" /\ TokensNext /\ UNCHANGED <<roomsVars, timelineVars>>

MCSpec == MCInit /\ [][MCNext]_<<part, roomsVars, timelineVars, tokensVars>>
=============================================================================

---------------------------- MODULE MCRetireWatch ----------------------------
(***************************************************************************)
(* Two chat entries and an embedding.  The second chat entry sends what the   *)
(* first is called, as deepinfra's of models.yaml:215 does for the entry at     *)
(* line 150.  Providers list both and two new models, or one of the new.     *)
(***************************************************************************)
EXTENDS RetireWatchProps

CONSTANTS chat1, chat2, embed, new1, new2, first, second, third

MCIds == {chat1, chat2, embed, new1, new2}
MCSlots == {first, second, third}
MCChats == {first, second}


MCWritten ==
  [s \in MCSlots |-> CASE s = first  -> [name |-> chat1, api |-> NoId]
                       [] s = second -> [name |-> chat2, api |-> chat1]
                       [] s = third  -> [name |-> embed, api |-> NoId]]

MCCatalogs == {{chat1, chat2, new1, new2}, {new1}}
==============================================================================

------------------------------ MODULE MCDispatch ------------------------------
(***************************************************************************)
(* Requests and models for the runs of Dispatch: a chat with no pin, a chat  *)
(* that pins a model and goes on to the free cascade, and an embedding whose *)
(* caller also sent a failover list and asked for the free cascade.          *)
(***************************************************************************)
EXTENDS DispatchProps

CONSTANTS chat, pinned, embed, m1, m2

MCNamed ==
  [r \in Requests |->
     CASE r = chat   -> <<>>
       [] r = pinned -> <<m1>>
       [] r = embed  -> <<m2, m1>>]

\* Either model can do everything.
MCCapable == [r \in Requests |-> Models]
==============================================================================

--------------------------- MODULE MCStreamDispatch ---------------------------
(***************************************************************************)
(* A stream that names its model and asks for the rest, and one that takes *)
(* what there is, over two chat models.                                    *)
(***************************************************************************)
EXTENDS StreamDispatchProps

CONSTANTS pinned, free, a, b

MCNamed == [r \in {pinned, free} |-> IF r = pinned THEN <<b>> ELSE <<>>]
==============================================================================

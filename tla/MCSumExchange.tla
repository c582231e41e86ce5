---------------------------- MODULE MCSumExchange ---------------------------
(* Instances of SumExchange for TLC; the .cfg files hold its constants. *)
EXTENDS SumExchange

Plain(number) == [number |-> number, rest |-> FALSE, secondLine |-> number]

(* c1 gives a number in range, or one out of range, or a name with a line  *)
(* break; c2 a number in range.                                            *)
CONSTANTS c1, c2
FewInputs ==
    [c \in {c1, c2} |->
        IF c = c1 THEN {Plain("inRange"), Plain("outOfRange"),
                        [number |-> "inRange", rest |-> TRUE, secondLine |-> "noNumber"]}
                  ELSE {Plain("inRange")}]

============================================================================

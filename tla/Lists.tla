-------------------------------- MODULE Lists --------------------------------
(***************************************************************************)
(* Selecting from lists, as the comprehensions of the code do.             *)
(***************************************************************************)
EXTENDS Integers, Sequences

\* The entries of a sequence at the given positions, in their order.
Entries(s, positions) ==
    LET upTo[n \in 0 .. Len(s)] ==
            IF n = 0 THEN <<>>
            ELSE IF n \in positions THEN Append(upTo[n - 1], s[n])
            ELSE upTo[n - 1]
    IN  upTo[Len(s)]

=============================================================================

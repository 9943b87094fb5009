-------------------------------- MODULE Sieve --------------------------------
(* Taking a value out of a sequence, as a recursive function: what a          *)
(* comprehension with an `if` does in the sources of several modules.        *)
EXTENDS Integers, Sequences

\* q without the occurrences of x, in the order of q.
Without(q, x) ==
    LET kept[n \in 0..Len(q)] ==
            IF n = 0 THEN <<>>
            ELSE IF q[n] = x THEN kept[n - 1] ELSE Append(kept[n - 1], q[n])
    IN  kept[Len(q)]
=============================================================================

-------------------------------- MODULE Filter --------------------------------
(***************************************************************************)
(* Erasing from a list, as std::list::erase() and the erase-remove idiom   *)
(* do: the other elements keep their order.                                *)
(***************************************************************************)
EXTENDS Integers, Sequences

\* The sequence s without the elements of `gone`.
Without(s, gone) ==
    LET kept[i \in 0 .. Len(s)] ==
            IF i = 0 THEN <<>>
            ELSE IF s[i] \in gone THEN kept[i - 1] ELSE Append(kept[i - 1], s[i])
    IN kept[Len(s)]
=============================================================================

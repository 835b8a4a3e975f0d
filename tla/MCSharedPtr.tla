---------------------------- MODULE MCSharedPtr ----------------------------
(* A list: "next" is a member of the first object; "back" of the second one  *)
(* is a weak_ptr.                                                            *)
EXTENDS SharedPtr

CONSTANTS t1, t2, first, second, head, other, next, watch, back

MCShared == {head, other, next}
MCWeak   == {watch, back}
MCWhere  == [h \in MCShared \cup MCWeak |->
                IF h = next THEN first ELSE IF h = back THEN second ELSE Null]
MCThread == {t1, t2}
MCObject == {first, second}

=============================================================================

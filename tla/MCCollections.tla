---------------------------- MODULE MCCollections ----------------------------
(* Collections on a small instance. *)
EXTENDS Collections

CONSTANTS a, b, c, x

\* Values the SQL prefilter confuses, and a deleted row.
MCFirstRows == {[k \in Keys |-> IF k = <<a, x>> THEN "missing" ELSE "true"],
                [k \in Keys |-> IF k = <<a, x>> THEN "true" ELSE Deleted]}

MCPrograms == {<<Put(<<a, x>>, "unset")>>, <<Flip(<<a, x>>), Put(<<b, x>>, "null")>>,
               <<Del(<<a, x>>), Flip(<<b, x>>)>>, <<Put(<<a, x>>, "big")>>,
               <<Flip(<<b, x>>), Put(<<a, x>>, "bad")>>}

MCOthers == {<<Put(<<a, x>>, "null"), Sweep(a, "null")>>,
             <<Sweep(a, "one"), Sweep(a, "null"), Sweep(b, "true"), Put(<<b, x>>, "true")>>,
             <<Del(<<a, x>>), Put(<<a, x>>, "one"), Flip(<<a, x>>)>>}
=============================================================================

---------------------------- MODULE MCLinkGraph ----------------------------
(* Module a may import b; a's design, the concept and the Stack post name  *)
(* each other, the design and the concept may bear one artifact code, and  *)
(* the post may be stale.  To begin with it is when the concept has the    *)
(* code of the design.                                                     *)
EXTENDS LinkGraph

CONSTANTS a, b, c, p, One, Two, Three

Text(refs, code) == [refs |-> refs, code |-> code, stale |-> FALSE]

MCContents ==
    [f \in ({"source", "design"} \X {a, b}) \cup {<<"concept", c>>, <<"post", p>>} |->
        CASE f = <<"source", a>> -> {Text({<<"source", b>>}, NoCode)}
          [] f = <<"source", b>> -> {Text({}, NoCode)}
          [] f = <<"design", a>> ->
                {Text({<<"name", c>>, <<"post", p>>}, One)}
          [] f = <<"design", b>> -> {}
          [] f = <<"concept", c>> ->
                {Text({<<"source", b>>}, Two), Text({}, One)}
          [] f = <<"post", p>> ->
                {[Text({<<"source", b>>, <<"name", c>>}, Three) EXCEPT !.stale = stale] :
                    stale \in BOOLEAN}]

MCInit == Init /\ (disk[<<"post", p>>].stale <=> disk[<<"concept", c>>].code = One)
MCSpec == MCInit /\ [][Next]_vars
=============================================================================

----------------------------- MODULE MCBlocklist -----------------------------
(* A small instance of Blocklist: two addresses of one domain, one of them in two
   spellings, and the domain itself. *)
EXTENDS Blocklist

MCSymmetry == Permutations(Key)

MCWritten == {"ann@d", "Ann@d", "bob@d", "d"}
MCNormal == [w \in MCWritten |-> IF w = "Ann@d" THEN "ann@d" ELSE w]
MCWellFormed == {"ann@d", "bob@d"}
MCDomainOf == [w \in MCWellFormed |-> "d"]

\* Nothing, one in either spelling, two, one in both spellings before another, and
\* what is no address.
MCBatch ==
  {<<>>, <<"ann@d">>, <<"Ann@d", "bob@d">>, <<"ann@d", "Ann@d", "bob@d">>, <<"d">>}
=============================================================================

----------------------------- MODULE MCCatalog ------------------------------
(***************************************************************************)
(* Instances of Catalog for TLC: a model priced by token or per image.     *)
(* At 4000 bps the cheaper rate per image rounds to nothing.               *)
(***************************************************************************)
EXTENDS Catalog

CONSTANTS r1, r2, p1, g1, g2

NoRule == [f \in {} |-> Rejected]
PerMillion(price) == [unit |-> 4, price |-> price]
PerImage(price)   == [unit |-> 1, price |-> price]

ByToken == [basis |-> "token", threshold |-> 3, rule |-> NoRule,
            rates |-> [m \in {"input", "output", "input_long", "output_long"} |->
                         PerMillion(IF m \in {"input", "output"} THEN 5 ELSE 9)]]
ByImage == [basis |-> "unit", threshold |-> NoThreshold,
            rule  |-> [f \in Facts |-> CASE f = "small" -> "default"
                                        [] f = "large" -> "hd"
                                        [] OTHER       -> "4k"],
            rates |-> [s \in {"default", "hd"} |-> PerImage(IF s = "hd" THEN 6 ELSE 1)]]
MCContents == {ByToken, ByImage}

Listed    == [callable |-> TRUE, newapiGroup |-> g1, profile |-> p1,
              bps |-> 10000, allowLong |-> TRUE]
MCListings == {Listed, [Listed EXCEPT !.callable = FALSE],
               [Listed EXCEPT !.newapiGroup = g2, !.bps = 4000, !.allowLong = FALSE]}
ListedOrNot == {Listed, None}
AllByToken == [p \in Profiles |-> ByToken]
MCUsages   == {[m \in {"input", "output"} |-> IF m = "input" THEN 3 ELSE 1]}
=============================================================================

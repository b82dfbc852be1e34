---------------------------- MODULE MCKeyManager ----------------------------
(* TLC instance of KeyManager. *)
EXTENDS KeyManager

\* Addresses with and without the separators of the format.
Addresses == {<<>>, <<Other>>, <<Bar>>, <<Other, Bar, Dash>>, <<Dash, Bar, Other, Bar>>}

\* Keys whose encodings contain a dash, at either end or not at all.
Keys == {NoKey, <<1, 1>>, <<0, 0>>}

Generators ==
    {g \in [addr : Addresses, x : Keys, ed : Keys] :
        g.addr \in {<<>>, <<Other>>} \/ g.ed = <<1, 1>>}

OnlyV1 == {gota1}

CONSTANT Far  \* the caller whose key comes a long way

\* A key arrives as it is, or with one character lost, changed or added.
OneEdit(c, k) ==
    LET chars == {Letter(0), Dash, Letter(2), Bar, Newline} IN
    {k} \cup IF c # Far THEN {} ELSE
           {RemoveAt(k, i) : i \in DOMAIN k}
              \cup {ReplaceAt(k, i, x) : i \in DOMAIN k, x \in chars}
              \cup {InsertAt(k, i, x) : i \in 1 .. Len(k) + 1, x \in chars}
=============================================================================

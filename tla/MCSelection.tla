---- MODULE MCSelection ----
EXTENDS Selection, TLC

\* Two themes, the first with more members than its share, and a watchlist that
\* repeats one of them.
MCMembers == [semis |-> <<"a1", "a2">>, bio |-> <<"b1">>]
MCWatchlist == <<"a1", "w">>

OfRow(change, amount) == [price |-> 10, change |-> change, amount |-> amount]
MCRankings ==
    {[a1 |-> OfRow(5, 300), a2 |-> OfRow(4, 200), b1 |-> OfRow(6, 100), w |-> OfRow(1, 50)],
     [a2 |-> OfRow(4, 400), b1 |-> OfRow(6, 100)]}

Vet(known) == known @@ [s \in Stock |-> "clean"]
MCVets == {Vet("a1" :> "blank" @@ "a2" :> "unanswered" @@ "w" :> "unpriced")}

\* Rules whose terms all hold, but for those of one that cannot be measured.
Shows(rules, missing) ==
    [r \in Rules |-> [k \in EntryTechniques[r].needs \cup EntryTechniques[r].likes |->
        IF r \notin rules THEN "fails"
        ELSE IF k \in missing THEN "unknown" ELSE "holds"]]
Bars(rules, missing) == [chart |-> Shows(rules, missing), limit |-> TRUE, bars |-> TRUE]
NoBars == [Bars({}, {}) EXCEPT !.bars = FALSE]

MCChartings ==
    {[a1 |-> Bars({"breakout"}, {"body", "rs"}), a2 |-> NoBars,
      b1 |-> Bars({"theme_leader"}, {}), w |-> Bars({"orb"}, {})],
     [a1 |-> Bars({"breakout", "open_gap"}, {"volume"}), a2 |-> NoBars,
      b1 |-> Bars({"orb", "breakout"}, {"body"}), w |-> NoBars]}

MCStats == {[r \in Rules |-> [trades |-> IF r = "orb" THEN 9 ELSE 0, wins |-> 20]]}
MCSigns == {[atr |-> "unknown", fade |-> 1, ripe |-> TRUE, old |-> FALSE],
            [atr |-> "holds", fade |-> 2, ripe |-> FALSE, old |-> FALSE]}
MCEntryOrder == <<"breakout", "theme_leader", "orb", "open_gap">>
MCHours == <<"open", "main", "late">>
====

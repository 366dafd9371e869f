----------------------------- MODULE MCMigrate ------------------------------
(* The databases earlier installations left behind. *)
EXTENDS Migrate

Db(tables, seeded, tracked, versions) ==
    [tables |-> tables,
     rows |-> [p \in Parts |-> IF p \in seeded THEN "initial" ELSE "none"],
     tracked |-> tracked, versions |-> versions]

Fresh == Db({}, {}, FALSE, {})

\* the older list, stopped behind each of its four files or before the first
Listed == {Db({}, {}, TRUE, {}),
           Db({"core"}, {}, TRUE, {"create_table"}),
           Db({"core"}, {"core"}, TRUE, {"create_table", "hvnl_seed"}),
           Db(Parts, {"core"}, TRUE, {"create_table", "hvnl_seed", "create_goods_tables"}),
           Db(Parts, Parts, TRUE, Legacy)}

\* made by the older setup.sh, without a history: both parts, or the core
\* part with no goods tables or with empty ones
Untracked == Db(Parts, Parts, FALSE, {})
UntrackedCore == {Db({"core"}, {"core"}, FALSE, {}), Db(Parts, {"core"}, FALSE, {})}

FromAll == {Fresh, Untracked} \cup Listed \cup UntrackedCore
FromUntracked == {Untracked}
=============================================================================

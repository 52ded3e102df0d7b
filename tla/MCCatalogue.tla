----------------------------- MODULE MCCatalogue -----------------------------
(* Two databases with shops in them, statements that read their catalogues, *)
(* and a few changes by others.                                             *)
EXTENDS Catalogue

T(kind, decl, len, prec, scale, null) ==
  [kind |-> kind, decl |-> decl, len |-> len, prec |-> prec, scale |-> scale, null |-> null]

Plain == [default |-> FALSE, identity |-> FALSE, computed |-> FALSE]
Col(n, t) == Plain @@ [name |-> n, type |-> t]
Ix(n, cols, primary, clustered) ==
  [name |-> n, cols |-> cols, unique |-> TRUE, primary |-> primary, clustered |-> clustered]

Table(n, cols, key, fks, ixs, checks) ==
  [name |-> n, catalog |-> "", columns |-> cols, key |-> key, fks |-> fks, indexes |-> ixs, checks |-> checks]

IntT == T("Int32", "", 0, 0, 0, FALSE)
TinyT == T("Int32", "tinyint", 0, 0, 0, TRUE)
NameT == T("String", "varchar", 50, 0, 0, TRUE)
TextT == T("String", "", 20, 0, 0, TRUE)
CashT == T("Decimal", "", 0, 10, 2, TRUE)

Users == Table(<<"Users">>,
  <<[Col("id", IntT) EXCEPT !.identity = TRUE], Col("name", NameT), Col("Email", TextT), Col("age", TinyT)>>, <<"id">>, <<>>,
  <<Ix(<<"UQ", "Email">>, <<"Email", "name">>, FALSE, FALSE)>>, <<>>)

Orders == Table(<<"Orders">>,
  <<Col("no", IntT), Col("user_id", IntT), [Col("total", CashT) EXCEPT !.default = TRUE],
    [Col("twice", CashT) EXCEPT !.computed = TRUE]>>, <<"no", "user_id">>,
  <<[cols |-> <<"user_id">>, ref |-> <<"Users">>, refCols |-> <<"id">>]>>,
  <<Ix(<<"PK", "Orders">>, <<"no", "user_id">>, TRUE, TRUE), Ix(<<"IX", "total">>, <<"total">>, FALSE, FALSE)>>,
  <<[name |-> <<"CK", "total">>, brackets |-> {"total"}]>>)

Log == Table(<<"Log">>, <<Col("line", TextT)>>, <<>>, <<>>, <<>>, <<>>)
Slim == [Users EXCEPT !.columns = Tail(@), !.key = <<>>, !.indexes = <<>>]

Shop   == [tables |-> <<Users, Orders>>, types |-> <<<<"Ids">>>>]
Grown  == [tables |-> <<Log, Orders, Users>>, types |-> <<>>]
Shrunk == [tables |-> <<Slim, Log>>, types |-> <<>>]

Routine(n, kind, params, refs, idents, on) ==
  [name |-> n, kind |-> kind, params |-> params, refs |-> refs, idents |-> idents, on |-> on]

SomeRoutines ==
  <<Routine(<<"vUsers">>, "view", <<>>, <<<<"Users">>, <<"users">>>>, {"name", "email"}, <<>>),
    Routine(<<"addUser">>, "proc", <<[name |-> "@n", decl |-> "nvarchar", len |-> 20, prec |-> 0, scale |-> 0]>>,
            <<>>, {}, <<>>),
    Routine(<<"trgOrders">>, "trigger", <<>>, <<>>, {}, <<"Orders">>)>>
FewRoutines == <<Routine(<<"Log2">>, "view", <<>>, <<>>, {}, <<>>)>>

MCDbs     == {"Sales", "Zoo"}
MCOrder   == <<"Sales", "Zoo">>
MCKeys    == {"", "Sales", "sales", "Nope"}
MCSpelled == [k \in MCKeys |-> IF k = "" THEN MCDbs ELSE IF k = "Nope" THEN {} ELSE {"Sales"}]
MCFiled   == [k \in MCKeys |-> IF k = "Nope" THEN "Zoo" ELSE "Sales"]
MCHolds   == [shop |-> Shop, grown |-> Grown, shrunk |-> Shrunk]
MCStores  == [none |-> <<>>, some |-> SomeRoutines, few |-> FewRoutines]
MCSchemas == DOMAIN MCHolds
MCRoutineSets == DOMAIN MCStores
MCFirstTables   == [d \in MCDbs |-> IF d = "Sales" THEN "shop" ELSE "shrunk"]
MCFirstRoutines == [d \in MCDbs |-> IF d = "Sales" THEN "some" ELSE "none"]
MCLower  == [Users |-> "users", Orders |-> "orders", Email |-> "email", Sales |-> "sales", Zoo |-> "zoo"]
MCHash   == [Log2 |-> "Users"]       \* two names of one hash
MCDbHash == [d \in MCDbs \cup {"Nope", "haystak"} |-> 900]
MCRank   == [d \in MCDbs \cup {"Nope", "haystak"} |-> IF d = "Sales" THEN 1 ELSE 2]
MCCaller == [user |-> "ann", roles |-> <<"db_owner", "clerk">>]
MCLive   == {51, 53}

Sys(v)     == [by |-> "sys", what |-> v, db |-> "", args |-> <<>>]
SysIn(v)   == [by |-> "sys", what |-> v, db |-> "sales", args |-> <<>>]
Info(v)    == [by |-> "info", what |-> v, db |-> "", args |-> <<>>]
Fn(db)     == [by |-> "fn", what |-> "COL_NAME", db |-> db, args |-> <<>>]
Proc(p, n) == [by |-> "proc", what |-> p, db |-> "",
               args |-> IF n = <<>> THEN <<>> ELSE <<[name |-> "", val |-> n]>>]

Joined(v, w) == <<Sys(v), Sys(w), Sys(v)>>     \* v, then w for every row of it: two rows

MCStatements ==
  <<Joined("index_columns", "indexes"), Joined("columns", "objects"), Joined("columns", "types"),
   Joined("index_columns", "columns"), Joined("indexes", "tables"), Joined("key_constraints", "indexes"),
   Joined("foreign_key_columns", "columns"), Joined("foreign_key_columns", "foreign_keys"),
   Joined("foreign_keys", "tables"), Joined("default_constraints", "columns"), Joined("sql_modules", "objects"),
   Joined("sql_expression_dependencies", "objects"), Joined("parameters", "objects"),
   <<Info("KEY_COLUMN_USAGE"), Info("TABLE_CONSTRAINTS")>>, <<Info("VIEW_COLUMN_USAGE"), Info("COLUMNS")>>,
   <<Info("REFERENTIAL_CONSTRAINTS"), Info("TABLE_CONSTRAINTS")>>,
   <<Sys("databases"), Fn(""), Sys("tables"), Fn("")>>, <<SysIn("tables"), Sys("tables"), SysIn("tables")>>,
   <<Fn("Nope"), Sys("dm_exec_sessions")>>,
   <<Proc("sp_help", <<>>)>>, <<Proc("sp_help", <<"users">>)>>, <<Proc("sp_databases", <<>>)>>,
   <<Proc("sp_tables", <<>>)>>, <<Proc("sp_depends", <<"vUsers">>)>>>>

MCPlans == [s \in DOMAIN MCStatements |-> PlanOf(MCStatements[s])]
=============================================================================

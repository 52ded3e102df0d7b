---------------------------- MODULE MCBatchSession ----------------------------
(* Instances of BatchSession for TLC. *)
EXTENDS BatchSession

CONSTANTS d1, d2

MCDb == {d1, d2}

Op(o) == [op |-> o]
UseOf(d) == [op |-> "use", db |-> d]
CapOf(n) == [op |-> "rowcount", n |-> n]
ExecOf(p) == [op |-> "exec", proc |-> p]
Bare == [op |-> "throw", bare |-> TRUE]
Own  == [op |-> "throw", bare |-> FALSE]
TryOf(b, c) == [op |-> "try", body |-> b, catch |-> c]
WhileOf(b) == [op |-> "while", body |-> b]
IfOf(t, e) == [op |-> "if", then |-> t, else |-> e]

(* "switch" has its own database and cap and ends in a write; "guarded"    *)
(* fails inside a TRY, re-raises what it caught, and uses the caller's #t; *)
(* "deep" calls "switch".                                                  *)
MCProcs ==
  [p \in {"switch", "guarded", "deep"} |->
     CASE p = "switch"  -> <<UseOf(d2), CapOf(1), Op("select"), Op("write"), Op("select")>>
       [] p = "guarded" -> <<TryOf(<<Op("select"), Op("insert")>>, <<Op("select"), Bare>>)>>
       [] p = "deep"    -> <<ExecOf("switch"), Op("write")>>]

Pairs(S) == {<<s, t>> : s, t \in S}

Plain == {UseOf(d1), UseOf(d2), CapOf(1), Op("select"), Op("write"), Op("create"), Op("read"),
          ExecOf("switch"), ExecOf("deep")}
Risky == {Op("fail"), Op("broken"), Op("panic"), Op("insert"), ExecOf("guarded"), Own, Bare}

SomePlain == {UseOf(d2), CapOf(1), Op("select"), ExecOf("switch")}
Leaves    == {Op("return"), Op("break"), Op("continue")}

(* No statement fails: every flat batch of two statements after CREATE     *)
(* TABLE #t, every IF and WHILE over some, between two others.             *)
CleanBatches ==
  {<<Op("create")>> \o p : p \in Pairs(Plain \ {Op("create")})}
  \cup {<<s, IfOf(<<t>>, <<u>>), v>> : s, t, u, v \in SomePlain}
  \cup {<<WhileOf(b), v>> : b \in Pairs(SomePlain \cup Leaves), v \in SomePlain}

Failing   == {Op("fail"), Own, Bare, ExecOf("guarded")}

(* Any statement may fail, inside or outside a TRY, a CATCH or a loop,     *)
(* also in a TRY inside a CATCH or a TRY: the errors raised differ.        *)
AnyBatches ==
  {<<Op("create"), s>> \o p : s \in {CapOf(1), Op("insert")}, p \in Pairs(Plain \cup Risky)}
  \cup {<<TryOf(b, <<u>>), v>> :
          b \in Pairs(SomePlain \cup {Op("fail"), ExecOf("guarded"), Op("return"), Op("panic")}),
          u \in SomePlain \cup {Own, Bare, ExecOf("guarded")},
          v \in SomePlain \cup {Bare}}
  \cup {<<WhileOf(<<TryOf(<<s>>, <<t>>), u>>), Op("select")>> :
          s, t, u \in {Op("select"), Op("fail"), Bare} \cup Leaves}
  \cup {<<TryOf(<<s>>, <<TryOf(<<t>>, <<u>>), v>>)>> :
          s, t \in Failing, u, v \in {Op("select"), Own, Bare, ExecOf("guarded")}}
  \cup {<<TryOf(<<TryOf(<<s>>, <<t>>)>>, <<u>>), Op("select")>> :
          s, t \in Failing, u \in {Op("select"), Bare, ExecOf("guarded")}}

(* What shows the state the first batch left: on each path, with and       *)
(* without a temp table.                                                   *)
Probes ==
  {<<Op("select"), Op("write")>>, <<IfOf(<<Op("select")>>, <<UseOf(d1)>>)>>,
   <<Op("read")>>, <<Op("insert")>>, <<Op("create"), ExecOf("guarded")>>}

MCBatches == <<CleanBatches \cup AnyBatches, Probes>>

(* The statements of the batches and procedures, with what is inside them: *)
(* no block of theirs is more than three deep.                             *)
In(bodies) == UNION {Range(b) : b \in bodies}
Inside(S)  == In(UNION {Blocks(s) : s \in S})

MCStatements ==
  LET S1 == In(UNION Range(MCBatches) \cup Range(MCProcs))
      S2 == Inside(S1)
      S3 == Inside(S2)
  IN  S1 \cup S2 \cup S3
=============================================================================

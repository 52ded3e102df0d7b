------------------------------ MODULE MCGateways ------------------------------
(* A demonstration of two tables, one of which the store holds before anyone starts, with *)
(* documents that do not all have the same fields.       *)
EXTENDS Gateways

Doc(id, at) == [id |-> id, at |-> at]
ValueKinds == [one |-> "int", two |-> "int", half |-> "float", word |-> "string"]
ValueRanks == [one |-> 1, two |-> 2, half |-> 1, word |-> 1]

MCDemo == <<
  [name |-> "people", cols |-> [id |-> "Int64", price |-> "Float64"], key |-> {"id"},
   docs |-> <<Doc("", [id |-> "one", price |-> "half"])>>],
  [name |-> "orders", cols |-> [id |-> "Int64"], key |-> {"id"}, docs |-> <<Doc("", [id |-> "one"])>>] >>

MCForeign == [orders |-> [fields |-> [name |-> "text"], docs |-> <<Doc("x", [name |-> "word"])>>]]

MCCreateLists == << [id |-> "Int64", note |-> "Decimal"] >>
MCRowLists == << <<Doc("", [id |-> "two"]), Doc("x", [name |-> "one"])>> >>
MCWheres == << << [field |-> "id", op |-> "<>", val |-> "one"] >> >>
MCSets == << << [field |-> "price", val |-> "two"] >> >>
Symmetric == Permutations(Gates)
=============================================================================

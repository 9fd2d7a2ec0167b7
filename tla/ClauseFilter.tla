---------------------------- MODULE ClauseFilter ----------------------------
(***************************************************************************)
(* ClauseFilter (filter/clausefilter.go): a boolean S-expression, compiled *)
(* to a tree of binary clauses when the filter is created and evaluated    *)
(* for every record.  A node of the expression has a value, when it is a   *)
(* word, or children, when it is a list.                                   *)
(***************************************************************************)
EXTENDS Integers, Sequences, FiniteSets

CONSTANTS FieldNames,   \* fieldByName knows them
          Expressions,  \* the Clause of the configuration, parsed: its top-level nodes
          Records       \* functions from FieldNames to values

VARIABLES expr, clause, filtered, judged

clausevars == <<expr, clause, filtered, judged>>

Word(w) == [value |-> w, children |-> <<>>]
List(nodes) == [value |-> "", children |-> nodes]

NoClause == [type |-> "none"]
True == [type |-> "true"]
False == [type |-> "false"]
Fatal == [type |-> "fatal"]
Atom(f, w) == [type |-> "atom", field |-> f, contents |-> w]
Not(c) == [type |-> "not", left |-> c]
Both(type, c, d) == [type |-> type, left |-> c, right |-> d]

(* Fault: of the arguments after the first only one is looked at.           *)
RestOne(kids) == kids[3]

(* A keyword with more than two arguments is the clause of the first one    *)
(* and of the keyword applied to the others.                                *)
Rest(kids) ==
    IF Len(kids) = 3 THEN kids[3]
    ELSE List(<<Word(kids[1].value)>> \o SubSeq(kids, 3, Len(kids)))

(* parseClauseSexp.  An error ends the process, wherever it is.             *)
RECURSIVE Compile(_)
Compile(node) ==
    LET kids == node.children
        n == Len(kids)
        head == IF n = 0 THEN "" ELSE kids[1].value
        keyword == head \in {"and", "or"}
        left == Compile(kids[2])
        right == Compile(Rest(kids))
    IN  CASE keyword /\ n = 1 -> IF head = "or" THEN True ELSE False
          [] keyword /\ n = 2 -> left
          [] keyword /\ n > 2 -> IF Fatal \in {left, right} THEN Fatal ELSE Both(head, left, right)
          [] n = 2 /\ head = "not" -> IF left = Fatal THEN Fatal ELSE Not(left)
          [] n = 2 /\ head \in FieldNames -> Atom(head, kids[2].value)
          [] OTHER -> Fatal

(* Both operands are only evaluated when the first does not decide.         *)
RECURSIVE Matches(_, _)
Matches(rec, c) ==
    CASE c.type = "not"  -> ~Matches(rec, c.left)
      [] c.type = "and"  -> Matches(rec, c.left) /\ Matches(rec, c.right)
      [] c.type = "or"   -> Matches(rec, c.left) \/ Matches(rec, c.right)
      [] c.type = "atom" -> rec[c.field] = c.contents
      [] OTHER           -> c.type = "true"

ClauseInit == expr \in Expressions /\ clause = NoClause /\ filtered = 0 /\ judged = <<>>

(* No expression lets everything pass; of several the first counts.         *)
NewClauseFilter ==
    /\ clause = NoClause
    /\ clause' = (IF expr = <<>> THEN True ELSE Compile(expr[1]))
    /\ UNCHANGED <<expr, filtered, judged>>

Process(rec) ==
    /\ clause \notin {NoClause, Fatal} /\ judged = <<>>
    /\ filtered' = (IF Matches(rec, clause) THEN filtered ELSE filtered + 1)
    /\ judged' = rec
    /\ UNCHANGED <<expr, clause>>

ClauseNext == NewClauseFilter \/ \E rec \in Records : Process(rec)

ClauseSpec == ClauseInit /\ [][ClauseNext]_clausevars

(* ------------------------------------------------------------------------ *)
(* What an expression means: the help of the filter, but for one line of    *)
(* it.  "Matches anything (because only one argument) (and X)", it says     *)
(* (clausefilter.go:47); the code makes it X (157-163), and so does Holds,  *)
(* as for (or X), of which the help says nothing.                           *)

Key(node) == IF node.children = <<>> THEN "" ELSE node.children[1].value
Args(node) == {node.children[i] : i \in 2 .. Len(node.children)}

RECURSIVE WellFormed(_)
WellFormed(node) ==
    CASE Key(node) \in {"and", "or"} -> \A x \in Args(node) : WellFormed(x)
      [] Key(node) = "not" -> Len(node.children) = 2 /\ WellFormed(node.children[2])
      [] OTHER -> Key(node) \in FieldNames /\ Len(node.children) = 2

(* Without arguments "and" matches nothing and "or" matches anything.       *)
RECURSIVE Holds(_, _)
Holds(rec, node) ==
    CASE Key(node) = "and" -> Args(node) # {} /\ \A x \in Args(node) : Holds(rec, x)
      [] Key(node) = "or"  -> Args(node) = {} \/ \E x \in Args(node) : Holds(rec, x)
      [] Key(node) = "not" -> ~Holds(rec, node.children[2])
      [] OTHER             -> rec[Key(node)] = node.children[2].value

(* The tree of binary clauses means what the expression says, at every      *)
(* depth and for every number of arguments, and the filter is created just  *)
(* for the expressions that mean something.  Known disagreement: an "and"   *)
(* of one argument, see Holds.                                              *)
ClauseMeansExpression ==
    /\ clause # NoClause => (clause = Fatal) = (expr # <<>> /\ ~WellFormed(expr[1]))
    /\ judged # <<>> => (filtered = 0) = (expr = <<>> \/ Holds(judged, expr[1]))
=============================================================================

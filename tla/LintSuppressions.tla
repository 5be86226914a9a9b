------------------------- MODULE LintSuppressions -------------------------
(* Comment directives that silence warnings of the covenant lint            *)
(* (semantic/LintSuppressions.ts).  A line of the source holds at most one   *)
(* comment; of a comment only the directive in it matters: its form and the  *)
(* rule it names, AnyRule when it names none.                                *)
EXTENDS CovenantLintTraversal

CONSTANTS AnyRule,     \* the wildcard '*'
          NoComment    \* a line without a directive

Comment(form, rule) == [form |-> form, rule |-> rule]

(* The directives that have a target line; a bare `disable` has none.  The   *)
(* pattern of the bare form has no group for a rule, so one that it names is *)
(* not read.                                                                 *)
\* Mutant: a next-line directive is taken for its own line.
MutDirectives(comments) ==
  {[target |-> i, at |-> i, rule |-> comments[i].rule] :
     i \in {j \in DOMAIN comments : comments[j] # NoComment /\ comments[j].form # "disable"}}
Directives(comments) ==
  {[target |-> IF comments[i].form = "disable-next-line" THEN i + 1 ELSE i,
    at |-> i, rule |-> comments[i].rule] :
     i \in {j \in DOMAIN comments : comments[j] # NoComment /\ comments[j].form # "disable"}}

WholeFile(comments) ==
  \E i \in DOMAIN comments : comments[i] # NoComment /\ comments[i].form = "disable"

MetaWarnings(comments) ==
  {[rule |-> "unknown-lint-rule", line |-> d.at] :
     d \in {e \in Directives(comments) : e.rule # AnyRule /\ e.rule \notin LINT_RULE_NAMES}}

Suppressed(warning, comments) ==
  \E d \in Directives(comments) :
    d.target = warning.line /\ d.rule \in {AnyRule, warning.rule}

applySuppressions(warnings, comments) ==
  MetaWarnings(comments) \cup
  (IF WholeFile(comments) THEN {} ELSE {w \in warnings : ~Suppressed(w, comments)})
==========================================================================

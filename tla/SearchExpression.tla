-------------------------- MODULE SearchExpression --------------------------
(***************************************************************************)
(* The search box of the event pages (services/events.py): a query is      *)
(* tokens, a validator accepts or refuses them, and a parser of its own    *)
(* turns what was accepted into a condition.  A behaviour types a query    *)
(* token by token; every term is a different one, so that an assignment is *)
(* the set of the positions whose terms match an event.                    *)
(***************************************************************************)
EXTENDS Integers, Sequences

CONSTANTS
    MaxTokens,   \* MAX_SEARCH_TOKENS
    MaxDepth     \* MAX_SEARCH_DEPTH

SearchAssumption == MaxTokens \in Nat /\ MaxDepth \in Nat

VARIABLES
    tokens,      \* the query so far
    quoted       \* it has a term in quotes

SEvars == <<tokens, quoted>>

Tokens == {"(", ")", "&&", "||", "term"}
Operators == Tokens \ {"term"}

TypeOK == tokens \in Seq(Tokens) /\ quoted \in BOOLEAN

Init == tokens = <<>> /\ quoted = FALSE

Type ==
    /\ Len(tokens) < MaxTokens
    /\ \E t \in Tokens :
          /\ tokens' = Append(tokens, t)
          /\ quoted' \in IF t = "term" THEN {quoted, TRUE} ELSE {quoted}

Next == Type
Spec == Init /\ [][Next]_SEvars

(***************************************************************************)
(* validate_search_expression                                              *)
(***************************************************************************)
Count(q, t) == Len(SelectSeq(q, LAMBDA x : x = t))
Depth(q, p) == LET before == SubSeq(q, 1, p) IN Count(before, "(") - Count(before, ")")
ExpectsTerm(q, p) == IF p = 0 THEN TRUE ELSE q[p] \in {"(", "&&", "||"}

HasSyntax(q) == \E p \in DOMAIN q : q[p] \in Operators

Fits(q, p) ==
    CASE q[p] = "("  -> ExpectsTerm(q, p - 1) /\ Depth(q, p) <= MaxDepth
      [] q[p] = ")"  -> ~ExpectsTerm(q, p - 1) /\ Depth(q, p - 1) > 0
      [] q[p] = "term" -> ExpectsTerm(q, p - 1)
      [] OTHER -> ~ExpectsTerm(q, p - 1)

Valid(q) ==
    \/ ~HasSyntax(q)
    \/ /\ \A p \in DOMAIN q : Fits(q, p)
       /\ ~ExpectsTerm(q, Len(q)) /\ Depth(q, Len(q)) = 0

(***************************************************************************)
(* build_search_expression: what is left after the position it has reached,*)
(* and whether the condition holds for an assignment.                      *)
(***************************************************************************)
Peek(q, p) == IF p \in DOMAIN q THEN q[p] ELSE "end"

RECURSIVE ParseOr(_, _, _), ParseAnd(_, _, _), OrRest(_, _, _), AndRest(_, _, _)

ParseFactor(q, a, p) ==
    IF Peek(q, p) = "("
    THEN LET r == ParseOr(q, a, p + 1)
         IN  IF Peek(q, r.pos) = ")" THEN [r EXCEPT !.pos = @ + 1] ELSE r
    ELSE [pos |-> p + 1, holds |-> p \in a]

AndRest(q, a, r) ==
    IF Peek(q, r.pos) # "&&" THEN r
    ELSE LET s == ParseFactor(q, a, r.pos + 1)
         IN  AndRest(q, a, [s EXCEPT !.holds = r.holds /\ s.holds])
ParseAnd(q, a, p) == AndRest(q, a, ParseFactor(q, a, p))

FactorOfOr(q, a, p) == ParseFactor(q, a, p)          \* mutant of the next
OperandOfOr(q, a, p) == ParseAnd(q, a, p)

OrRest(q, a, r) ==
    IF Peek(q, r.pos) # "||" THEN r
    ELSE LET s == OperandOfOr(q, a, r.pos + 1)
         IN  OrRest(q, a, [s EXCEPT !.holds = r.holds \/ s.holds])
ParseOr(q, a, p) == OrRest(q, a, ParseAnd(q, a, p))

(***************************************************************************)
(* The reference: the meaning of a span is that of its parts around the    *)
(* last operator outside parentheses, "||" before "&&".                    *)
(***************************************************************************)
Top(q, i, j, op) ==
    {p \in i..j : q[p] = op /\ Depth(q, p) = Depth(q, i - 1)}
Greatest(s) == CHOOSE p \in s : \A r \in s : r <= p

RECURSIVE Meaning(_, _, _, _)
Meaning(q, a, i, j) ==
    LET ors == Top(q, i, j, "||")
        ands == Top(q, i, j, "&&")
        left(p) == Meaning(q, a, i, p - 1)
        right(p) == Meaning(q, a, p + 1, j)
    IN  IF ors # {} THEN left(Greatest(ors)) \/ right(Greatest(ors))
        ELSE IF ands # {} THEN left(Greatest(ands)) /\ right(Greatest(ands))
        ELSE IF q[i] = "(" THEN Meaning(q, a, i + 1, j - 1)
        ELSE i \in a

(***************************************************************************)
(* Properties                                                              *)
(***************************************************************************)
Terms == {p \in DOMAIN tokens : tokens[p] = "term"}

(* What the validator accepts the parser reads to the end, and it means    *)
(* what the grammar says for every event.                                  *)
ParsedAsGrammar ==
    HasSyntax(tokens) /\ Valid(tokens) =>
        \A a \in SUBSET Terms :
            LET r == ParseOr(tokens, a, 1)
            IN  /\ r.pos = Len(tokens) + 1
                /\ r.holds <=> Meaning(tokens, a, 1, Len(tokens))

(* Quotes send a query to the parser, operators or not.  No term of a      *)
(* query that was accepted is ignored.                                     *)
WholeQuerySearched ==
    tokens # <<>> /\ quoted /\ Valid(tokens) => ParseOr(tokens, {}, 1).pos = Len(tokens) + 1

=============================================================================

----------------------------- MODULE FilterDsl -----------------------------
(***************************************************************************)
(* The filter expressions of src/core/filter_dsl.c: the recursive-descent  *)
(* parser with its two growing arrays, the relocation of the tree, the     *)
(* evaluator with the resolver of a call, and the glob matcher.            *)
(*                                                                         *)
(* An expression is a sequence of tokens; a comparison is one token.  The  *)
(* nodes and the operands' strings each live in a block that moves when it *)
(* grows, so a pointer is <<block, index>> and is stale once the block has *)
(* moved.  Patterns and texts are sequences of characters.  Left out:      *)
(* scanning of white space and numbers, error messages, lack of memory.    *)
(***************************************************************************)
EXTENDS Integers, Sequences, FiniteSets

CONSTANTS Comparisons, \* tokens that are well-typed comparisons
          IllTyped,    \* comparisons the type rule refuses
          MaxTokens, MaxChars, \* bounds on an expression and a pattern
          Alphabet,    \* characters, in their order
          Texts,       \* texts to match
          Operands, Calls, \* operands of a comparison, calls to filter
          OptionSet    \* the sizes of the arrays to begin with

VARIABLES opts,   \* nodes: node_cap at first; bytes: arena_cap at first
          kind,   \* what is asked for: an expression, a comparison, a match
          input, done, result

vars == <<opts, kind, input, done, result>>

Keywords == {"(", ")", "not", "and", "or"}
Tokens == Keywords \cup Comparisons \cup IllTyped
End == ""
TokenAt(p) == IF p.pos <= Len(p.src) THEN p.src[p.pos] ELSE End

-----------------------------------------------------------------------------
(* The arrays of the parser.                                                *)

NULL == <<0, 0>>
Node(k) == [kind |-> k, lhs |-> NULL, rhs |-> NULL, cmp |-> End, strs |-> {}]

\* A node at the end of the array, which is copied to a larger block first
\* when it is full.
node_new(p, node) ==
    LET full == Len(p.nodes) = p.node_cap
    IN [p EXCEPT !.nodes = Append(@, node),
                 !.block = IF full THEN @ + 1 ELSE @,
                 !.node_cap = IF full THEN 2 * @ + opts.nodes ELSE @]
Last(p) == <<p.block, Len(p.nodes)>>

\* arena_push of an operand's string, of one unit.
arena_push(p) ==
    LET full == p.arena_len + 1 > p.arena_cap
    IN [p EXCEPT !.arena_len = @ + 1,
                 !.arena = IF full THEN @ + 1 ELSE @,
                 !.arena_cap = IF full THEN 2 * @ + 1 + opts.bytes ELSE @]

\* A store through a pointer to a node: into the array, or lost when the array
\* has moved.
SetChild(p, n, child) ==
    IF n[1] = p.block THEN [p EXCEPT !.nodes[n[2]].lhs = child]
                      ELSE [p EXCEPT !.lost = TRUE]

-----------------------------------------------------------------------------
(* The parser.  Each operator returns the parser and a node, or NULL.       *)

Ret(p, n) == [p |-> p, n |-> n]
perr(p) == Ret([p EXCEPT !.failed = TRUE], NULL)
Advance(p) == [p EXCEPT !.pos = @ + 1]

RECURSIVE parse_or(_)

\* A comparison allocates its node, then pushes the strings of its operands,
\* and is refused when its types do not fit.
parse_comparison(p) ==
    LET p1 == node_new(p, Node("cmp"))
        n == Last(p1)
        p2 == arena_push(p1)
        p3 == arena_push(p2)
        cmp == [Node("cmp") EXCEPT !.cmp = TokenAt(p),
                                   !.strs = {p2.arena, p3.arena}]
    IN CASE TokenAt(p) \in Comparisons ->
              Ret(Advance([p3 EXCEPT !.nodes[n[2]] = cmp]), n)
         [] OTHER -> perr(p1)

\* What was parsed behind "(" must end at ")".
Closed(inner) ==
    IF TokenAt(inner.p) # ")" THEN perr(inner.p)
    ELSE Ret(Advance(inner.p), inner.n)
parse_primary(p) ==
    IF TokenAt(p) = "(" THEN Closed(parse_or(Advance(p))) ELSE parse_comparison(p)

\* The node of a negation is allocated before what it negates is parsed.
Negated(n, child) ==
    IF child.n = NULL THEN child ELSE Ret(SetChild(child.p, n, child.n), n)
RECURSIVE parse_not(_)
parse_not(p) ==
    IF TokenAt(p) = "not"
      THEN LET p1 == node_new(Advance(p), Node("not"))
           IN Negated(Last(p1), parse_not(p1))
      ELSE parse_primary(p)

\* The loops of parse_and and parse_or: left-associative chains, given up when
\* an operand fails.
Joined(p, k, l, r) ==
    LET p1 == node_new(p, [Node(k) EXCEPT !.lhs = l, !.rhs = r])
    IN Ret(p1, Last(p1))
Binary(k, l, r) == IF r.n = NULL THEN r ELSE Joined(r.p, k, l.n, r.n)

RECURSIVE AndChain(_)
AndChain(l) ==
    IF l.n = NULL \/ TokenAt(l.p) # "and" THEN l
    ELSE AndChain(Binary("and", l, parse_not(Advance(l.p))))
parse_and(p) == AndChain(parse_not(p))

RECURSIVE OrChain(_)
OrChain(l) ==
    IF l.n = NULL \/ TokenAt(l.p) # "or" THEN l
    ELSE OrChain(Binary("or", l, parse_and(Advance(l.p))))

\* Mutant: `and` and `or` bind alike, from left to right.
RECURSIVE FlatChain(_)
FlatChain(l) ==
    IF l.n = NULL \/ TokenAt(l.p) \notin {"and", "or"} THEN l
    ELSE FlatChain(Binary(TokenAt(l.p), l, parse_not(Advance(l.p))))
parse_or_flat(p) == FlatChain(parse_not(p))

parse_or(p) == OrChain(parse_and(p))

-----------------------------------------------------------------------------
(* retrace_filter_compile copies both arrays into one block and shifts every *)
(* pointer by the distance from the array's last block: a pointer into an    *)
(* earlier block ends up anywhere.                                           *)

Parser(src) == [src |-> src, pos |-> 1, failed |-> FALSE, lost |-> FALSE,
                nodes |-> <<>>, node_cap |-> opts.nodes, block |-> 1,
                arena_len |-> 0, arena_cap |-> opts.bytes, arena |-> 1]

Inside(p, n) == n[1] = p.block /\ n[2] \in 1 .. Len(p.nodes)
Relocated(p, root) ==
    /\ ~p.lost /\ Inside(p, root)
    /\ \A i \in 1 .. Len(p.nodes) :
         LET n == p.nodes[i]
         IN CASE n.kind = "cmp" -> n.strs \subseteq {p.arena}
              [] n.kind = "not" -> Inside(p, n.lhs)
              [] OTHER -> Inside(p, n.lhs) /\ Inside(p, n.rhs)

retrace_filter_compile(src) ==
    LET r == parse_or(Parser(src))
        ok == r.n # NULL /\ ~r.p.failed /\ TokenAt(r.p) = End
    IN [ok |-> src # <<>> /\ ok,
        sound |-> ok /\ Relocated(r.p, r.n),
        nodes |-> r.p.nodes, root |-> r.n[2], bytes |-> r.p.arena_len]

\* eval_node, of a tree that is where its pointers say; `true` is the set of
\* comparisons that hold of the call.
RECURSIVE eval_node(_, _, _)
eval_node(nodes, i, true) ==
    LET n == nodes[i]
    IN CASE n.kind = "cmp" -> n.cmp \in true
         [] n.kind = "not" -> ~eval_node(nodes, n.lhs[2], true)
         [] n.kind = "and" -> /\ eval_node(nodes, n.lhs[2], true)
                              /\ eval_node(nodes, n.rhs[2], true)
         [] OTHER -> \/ eval_node(nodes, n.lhs[2], true)
                     \/ eval_node(nodes, n.rhs[2], true)

-----------------------------------------------------------------------------
(* A comparison [lhs, op, rhs] against a call.  An operand is a number, a    *)
(* string or a name; a call has params, its function, ret and caller.        *)

NoStr == <<"NULL">>
Named(o) == o.kind \notin {"num", "str"}
Unknown == [known |-> FALSE, str |-> NoStr, num |-> 0]
Str(s) == [Unknown EXCEPT !.known = TRUE, !.str = s]
Num(n) == [Unknown EXCEPT !.known = TRUE, !.num = n]
Param(call, name) == {q \in call.params : q.name = name}
The(S) == CHOOSE x \in S : TRUE

\* The resolver of a call: a name that resolves but is not a string resolves
\* to the string NULL.
tctx_str(call, o) ==
    CASE o.kind = "func" -> Str(call.func)
      [] o.kind = "caller" -> Str(call.caller)
      [] Param(call, o.name) # {} -> Str(The(Param(call, o.name)).str)
      [] OTHER -> Unknown

tctx_num(call, o) ==
    CASE o.kind = "ret" -> Num(call.ret)
      [] Param(call, o.name) # {} /\ The(Param(call, o.name)).str = NoStr ->
           Num(The(Param(call, o.name)).num)
      [] OTHER -> Unknown

AsStr(call, o) == CASE o.kind = "str" -> Str(o.str)
                    [] o.kind = "num" -> Unknown
                    [] OTHER -> tctx_str(call, o)
AsNum(call, o) == CASE o.kind = "num" -> Num(o.num)
                    [] o.kind = "str" -> Unknown
                    [] OTHER -> tctx_num(call, o)

\* The type rule of parse_primary.
Relational == {"<", "<=", ">", ">="}
WellTyped(c) ==
    /\ c.op \in Relational => {c.lhs.kind, c.rhs.kind} \cap {"str", "func", "caller"} = {}
    /\ c.op \in {"~", "!~"} => c.rhs.kind = "str"

Arith(op, l, r) ==
    CASE op = "==" -> l = r [] op = "!=" -> l # r [] op = "<" -> l < r
      [] op = "<=" -> l <= r [] op = ">" -> l > r [] op = ">=" -> l >= r

-----------------------------------------------------------------------------
(* retrace_filter_glob_match: i and j are the places in the pattern and the  *)
(* text, sp and st the last star and where the text it left begins.          *)

Code(c) == CHOOSE n \in 1 .. Len(Alphabet) : Alphabet[n] = c

\* The rest of a class, from place q on: where it ends (0 when it does not)
\* and whether it holds c.
RECURSIVE ClassScan(_, _, _, _)
ClassScan(p, q, c, matched) ==
    IF q > Len(p) THEN [end |-> 0, matched |-> matched]
    ELSE IF p[q] = "]" THEN [end |-> q, matched |-> matched]
    ELSE IF q + 2 <= Len(p) /\ p[q + 1] = "-" /\ p[q + 2] # "]"
      THEN ClassScan(p, q + 3, c, matched \/ Code(c) \in Code(p[q]) .. Code(p[q + 2]))
    ELSE ClassScan(p, q + 1, c, matched \/ p[q] = c)

ClassAt(p, i, c) ==
    LET negate == i < Len(p) /\ p[i + 1] \in {"!", "^"}
        q == IF negate THEN i + 2 ELSE i + 1
        bracket == q <= Len(p) /\ p[q] = "]"
        scan == ClassScan(p, IF bracket THEN q + 1 ELSE q, c, bracket /\ c = "]")
    IN [end |-> scan.end, holds |-> scan.matched # negate]

\* Mutant: the last star goes on from the place of the mismatch.
ResumeHere(st, j) == j + 1

\* After a mismatch the last star takes one character more.
Resume(st, j) == st + 1

RECURSIVE Glob(_, _, _, _, _, _)
Glob(p, t, i, j, sp, st) ==
    LET back == sp # 0 /\ Glob(p, t, sp + 1, Resume(st, j), sp, Resume(st, j))
        both(n) == Glob(p, t, i + n, j + 1, sp, st)
        class == ClassAt(p, i, t[j])
    IN IF j > Len(t) THEN \A k \in i .. Len(p) : p[k] = "*"
       ELSE IF i > Len(p) THEN back
       ELSE IF p[i] = "?" THEN both(1)
       ELSE IF p[i] = "\\" /\ i < Len(p)
         THEN IF t[j] = p[i + 1] THEN both(2) ELSE back
       ELSE IF p[i] = "[" /\ class.end # 0
         THEN IF class.holds THEN both(class.end + 1 - i) ELSE back
       ELSE IF p[i] = t[j] THEN both(1)
       ELSE IF p[i] = "*" THEN Glob(p, t, i + 1, j, i, j)
       ELSE back
retrace_filter_glob_match(pattern, text) == Glob(pattern, text, 1, 1, 0, 0)

-----------------------------------------------------------------------------
\* The FN_CMP case of eval_node.
eval_cmp(c, call) ==
    LET ls == AsStr(call, c.lhs) rs == AsStr(call, c.rhs)
        ln == AsNum(call, c.lhs) rn == AsNum(call, c.rhs)
    IN IF c.op \in {"~", "!~"}
         THEN /\ ls.known /\ ls.str # NoStr
              /\ (c.op = "~") = retrace_filter_glob_match(c.rhs.str, ls.str)
       ELSE IF c.op \in {"==", "!="} /\ ls.known /\ rs.known
         THEN (c.op = "==") = (ls.str = rs.str)
       ELSE ln.known /\ rn.known /\ Arith(c.op, ln.num, rn.num)

-----------------------------------------------------------------------------
(* What filter_dsl.h promises.                                               *)

\* The grammar: disj, conj, neg and primary derive a sequence of tokens; it
\* means what the derivation says.  A chain splits at its last operator.
Before(s, i) == SubSeq(s, 1, i - 1)
After(s, i) == SubSeq(s, i + 1, Len(s))

RECURSIVE Derives(_, _)
Splits(s, op, l, r) ==
    {i \in 2 .. Len(s) - 1 : s[i] = op /\ Derives(l, Before(s, i)) /\ Derives(r, After(s, i))}
Derives(nt, s) ==
    CASE nt = "disj" -> Derives("conj", s) \/ Splits(s, "or", "disj", "conj") # {}
      [] nt = "conj" -> Derives("neg", s) \/ Splits(s, "and", "conj", "neg") # {}
      [] nt = "neg" -> \/ Len(s) > 1 /\ s[1] = "not" /\ Derives("neg", Tail(s))
                       \/ Derives("primary", s)
      [] OTHER -> \/ Len(s) = 1 /\ s[1] \in Comparisons
                  \/ /\ Len(s) > 2 /\ s[1] = "(" /\ s[Len(s)] = ")"
                     /\ Derives("disj", SubSeq(s, 2, Len(s) - 1))

RECURSIVE Means(_, _)
Means(s, true) ==
    LET ors == Splits(s, "or", "disj", "conj")
        ands == Splits(s, "and", "conj", "neg")
    IN CASE ors # {} -> LET i == The(ors) IN Means(Before(s, i), true) \/ Means(After(s, i), true)
         [] ors = {} /\ ands # {} ->
              LET i == The(ands) IN Means(Before(s, i), true) /\ Means(After(s, i), true)
         [] ors = {} /\ ands = {} /\ s[1] = "not" -> ~Means(Tail(s), true)
         [] ors = {} /\ ands = {} /\ s[1] = "(" -> Means(SubSeq(s, 2, Len(s) - 1), true)
         [] OTHER -> s[1] \in true

\* The members of a class are characters and ranges x-y, read from the left; a
\* "]" that comes first is a character.
Star == {"*", "star"}
AnyChar == {Alphabet[n] : n \in 1 .. Len(Alphabet)}
RECURSIVE Members(_)
Members(body) ==
    IF body = <<>> THEN {}
    ELSE IF Len(body) > 2 /\ body[2] = "-" /\ body[1] # "]"
      THEN {Alphabet[n] : n \in Code(body[1]) .. Code(body[3])}
             \cup Members(SubSeq(body, 4, Len(body)))
    ELSE {body[1]} \cup Members(Tail(body))

\* A class has a member, so it ends at the first "]" behind its first member.
ClassBody(p) == IF Len(p) > 1 /\ p[2] \in {"!", "^"} THEN 3 ELSE 2
ClassEnds(p) == {k \in ClassBody(p) + 1 .. Len(p) : p[k] = "]"}
ClassEnd(p) == CHOOSE k \in ClassEnds(p) : \A l \in ClassEnds(p) : k <= l
ClassMeans(p) ==
    LET members == Members(SubSeq(p, ClassBody(p), ClassEnd(p) - 1))
    IN IF ClassBody(p) = 3 THEN AnyChar \ members ELSE members

\* A pattern as a sequence of stars and of sets of characters.
RECURSIVE Elements(_)
Elements(p) ==
    LET from(n) == Elements(SubSeq(p, n + 1, Len(p)))
    IN CASE p = <<>> -> <<>>
         [] p # <<>> /\ p[1] = "*" -> <<Star>> \o from(1)
         [] p # <<>> /\ p[1] = "?" -> <<AnyChar>> \o from(1)
         [] Len(p) > 1 /\ p[1] = "\\" -> <<{p[2]}>> \o from(2)
         [] p # <<>> /\ p[1] = "[" /\ ClassEnds(p) # {} ->
              <<ClassMeans(p)>> \o from(ClassEnd(p))
         [] OTHER -> <<{p[1]}>> \o from(1)

RECURSIVE Matches(_, _)
Matches(es, t) ==
    IF es = <<>> THEN t = <<>>
    ELSE IF Head(es) = Star
      THEN \E n \in 0 .. Len(t) : Matches(Tail(es), SubSeq(t, n + 1, Len(t)))
    ELSE t # <<>> /\ Head(t) \in Head(es) /\ Matches(Tail(es), Tail(t))

\* The value of an operand: params that are strings and func are strings, other
\* params and ret are integers; a name the call does not have is nothing.
Value(call, o) ==
    CASE o.kind = "num" -> [type |-> "int", num |-> o.num, str |-> NoStr]
      [] o.kind = "ret" -> [type |-> "int", num |-> call.ret, str |-> NoStr]
      [] o.kind = "str" -> [type |-> "str", num |-> 0, str |-> o.str]
      [] o.kind = "func" -> [type |-> "str", num |-> 0, str |-> call.func]
      [] o.kind = "param" /\ Param(call, o.name) # {} ->
           LET q == The(Param(call, o.name))
           IN [type |-> IF q.str = NoStr THEN "int" ELSE "str", num |-> q.num, str |-> q.str]
      [] o.kind = "caller" ->
           [type |-> IF call.caller = NoStr THEN "null" ELSE "str", num |-> 0,
            str |-> call.caller]
      [] OTHER -> [type |-> "none", num |-> 0, str |-> NoStr]

CmpMeans(c, call) ==
    LET l == Value(call, c.lhs) r == Value(call, c.rhs)
    IN CASE l.type = "int" /\ r.type = "int" ->
              c.op \notin {"~", "!~"} /\ Arith(c.op, l.num, r.num)
         [] l.type = "str" /\ r.type = "str" ->
              CASE c.op = "==" -> l.str = r.str
                [] c.op = "!=" -> l.str # r.str
                [] c.op = "~" -> Matches(Elements(r.str), l.str)
                [] c.op = "!~" -> ~Matches(Elements(r.str), l.str)
                [] OTHER -> FALSE
         [] OTHER -> FALSE

-----------------------------------------------------------------------------

ComparisonSet ==
    {c \in [lhs : Operands, rhs : Operands,
            op : Relational \cup {"==", "!=", "~", "!~"}] : WellTyped(c)}

Init ==
    /\ \/ kind = "expr" /\ input = <<>> /\ opts \in OptionSet
       \/ kind = "glob" /\ input = <<>> /\ opts = The(OptionSet)
       \/ kind = "cmp" /\ input \in ComparisonSet /\ opts = The(OptionSet)
    /\ done = FALSE /\ result = {}

\* The user writes an expression or a pattern (external).
Write(k, Symbols, bound) ==
    /\ kind = k /\ ~done /\ Len(input) < bound
    /\ \E s \in Symbols : input' = Append(input, s)
    /\ UNCHANGED <<opts, kind, done, result>>

Truths == SUBSET Comparisons
Compile ==
    /\ kind = "expr" /\ ~done /\ done' = TRUE
    /\ LET ast == retrace_filter_compile(input)
       IN result' = [ok |-> ast.ok, sound |-> ast.sound,
                     fits |-> Len(ast.nodes) <= opts.nodes /\ ast.bytes <= opts.bytes,
                     value |-> IF ast.ok /\ ast.sound
                                 THEN {T \in Truths : eval_node(ast.nodes, ast.root, T)}
                                 ELSE {}]
    /\ UNCHANGED <<opts, kind, input>>

Match ==
    /\ kind = "glob" /\ ~done /\ done' = TRUE
    /\ result' = {t \in Texts : retrace_filter_glob_match(input, t)}
    /\ UNCHANGED <<opts, kind, input>>

Evaluate ==
    /\ kind = "cmp" /\ ~done /\ done' = TRUE
    /\ result' = {call \in Calls : eval_cmp(input, call)}
    /\ UNCHANGED <<opts, kind, input>>

Next == \/ Write("expr", Tokens, MaxTokens) \/ Write("glob", AnyChar, MaxChars)
        \/ Compile \/ Match \/ Evaluate

Spec == Init /\ [][Next]_vars

-----------------------------------------------------------------------------
Compiled == kind = "expr" /\ done

\* The grammar of filter_dsl.h is what is accepted, and the tree of an accepted
\* expression has the truth table the grammar gives it: precedence, chains,
\* negations, parentheses, and the pointers of the relocated tree.
CompiledMeans ==
    Compiled =>
      /\ result.ok = Derives("disj", input)
      /\ result.ok => result.sound /\ result.value = {T \in Truths : Means(input, T)}

\* CompiledMeans for expressions whose nodes and strings fit the arrays that
\* retrace_filter_compile begins with; a larger one is accepted all the same.
SmallCompiledMeans ==
    Compiled =>
      /\ result.ok = Derives("disj", input)
      /\ result.ok /\ result.fits =>
           result.sound /\ result.value = {T \in Truths : Means(input, T)}

\* The matcher, which goes back to its last star only, agrees with the meaning
\* of stars, classes and escapes, on every text that has no star in it.  (A
\* star of the text is compared with a star of the pattern as a character.)
GlobAgrees ==
    kind = "glob" /\ done =>
      \A t \in Texts : (\A j \in 1 .. Len(t) : t[j] # "*") =>
                         ((t \in result) = Matches(Elements(input), t))

\* A comparison has the value its operands' types give it: strings as strings,
\* other params as integers, FALSE for what the call does not have.  Not said:
\* != of a string and a number; == and != with an unresolved caller; and == and
\* != of two params that are integers, which the resolver gives as two NULL
\* strings, so that they always compare as equal.
Unsaid(c, call) ==
    LET types == {Value(call, c.lhs).type, Value(call, c.rhs).type}
    IN /\ c.op \in {"==", "!="}
       /\ \/ "null" \in types
          \/ c.op = "!=" /\ types = {"int", "str"}
          \/ types = {"int"} /\ c.lhs.kind = "param" /\ c.rhs.kind = "param"
ComparesByType ==
    kind = "cmp" /\ done =>
      \A call \in Calls :
        Unsaid(input, call) \/ (call \in result) = CmpMeans(input, call)
=============================================================================

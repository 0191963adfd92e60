------------------------------ MODULE ShellParser ------------------------------
(***************************************************************************)
(* The parser of the shell (sh.c): parsecmd() and what it calls, against   *)
(* the grammar it is for.                                                  *)
(*                                                                         *)
(* A line is a sequence of characters, "a" for any that is neither a blank *)
(* nor a symbol.  A position stands for a char pointer and a word is a     *)
(* pair <<q, eq>>.  panic() is position 0, at which every peek() fails.    *)
(***************************************************************************)
EXTENDS Naturals, SequencesExt, FiniteSetsExt

CONSTANTS Letters,  \* the characters typed
          CmdLines, \* the lines parsed, closed under prefixes
          MAXARGS

VARIABLE cmdline
parserVars == <<cmdline>>

At(s, i) == IF i \in DOMAIN s THEN s[i] ELSE "nul"
\* The first position from i on that holds none of cs.
Span(s, i, cs) == IF i = 0 THEN 0 ELSE Min({j \in i..Len(s) + 1 : At(s, j) \notin cs})
Skip(s, i) == Span(s, i, {" "})
WordEnd(s, i) == Span(s, i, {"a"})

\* The end of the token is taken after the blanks that follow it.
gettokenLateEnd(s, i) ==
  LET q == Skip(s, i)
      tok == IF At(s, q) = ">" /\ At(s, q + 1) = ">" THEN "+" ELSE At(s, q)
      eq == CASE tok = "nul" -> q
              [] tok = "a" -> WordEnd(s, q)
              [] tok = "+" -> q + 2
              [] OTHER -> q + 1
  IN [first |-> At(s, q), tok |-> tok, word |-> <<q, Skip(s, eq)>>, at |-> Skip(s, eq)]

gettoken(s, i) ==
  LET q == Skip(s, i)
      tok == IF At(s, q) = ">" /\ At(s, q + 1) = ">" THEN "+" ELSE At(s, q)
      eq == CASE tok = "nul" -> q
              [] tok = "a" -> WordEnd(s, q)
              [] tok = "+" -> q + 2
              [] OTHER -> q + 1
  IN [first |-> At(s, q), tok |-> tok, word |-> <<q, eq>>, at |-> Skip(s, eq)]

\* gettoken() at every position of the line; peek() looks at the first character only.
Lexed(s) == [i \in 0..Len(s) + 1 |-> gettoken(s, i)]
peek(G, i, toks) == G[i].first \in toks

Parsed(i, cmd) == [at |-> i, cmd |-> cmd]
Panic == Parsed(0, <<"panic">>)

redircmd(cmd, tok, word) == <<"redir", cmd, IF tok = "<" THEN 0 ELSE 1, word>>

RECURSIVE parseredirs(_, _)
parseredirs(G, c) ==
  LET op == G[c.at]
      file == G[op.at]
  IN IF ~peek(G, c.at, {"<", ">"}) THEN c
     ELSE IF file.tok # "a" THEN Panic
     ELSE parseredirs(G, Parsed(file.at, redircmd(c.cmd, op.tok, file.word)))

\* The loop of parseexec(): argv so far, and the redirections around it.
RECURSIVE parseargs(_, _, _)
parseargs(G, argv, c) ==
  LET t == G[c.at]
      more == parseredirs(G, Parsed(t.at, c.cmd))
  IN CASE c.at = 0 \/ peek(G, c.at, {"|", ")", "&", ";"}) \/ t.tok = "nul" -> [args |-> argv, c |-> c]
       [] t.tok # "a" \/ Len(argv) + 1 >= MAXARGS -> [args |-> argv, c |-> Panic]
       [] OTHER -> parseargs(G, Append(argv, t.word), more)

\* argv is filled in behind the redirections that were built around the command.
RECURSIVE Fill(_, _)
Fill(cmd, argv) == IF cmd[1] = "redir" THEN <<"redir", Fill(cmd[2], argv), cmd[3], cmd[4]>>
                   ELSE <<"exec", argv>>

Both(kind, left, right) == IF right.at = 0 THEN Panic ELSE Parsed(right.at, <<kind, left.cmd, right.cmd>>)

RECURSIVE parsebacks(_, _)
parsebacks(G, c) ==
  IF peek(G, c.at, {"&"}) THEN parsebacks(G, Parsed(G[c.at].at, <<"back", c.cmd>>)) ELSE c

\* The functions that call each other; P is the three of them, by name and position.
parseline(P, G, i) ==
  LET c == parsebacks(G, P["pipe", i])
  IN IF peek(G, c.at, {";"}) THEN Both("list", c, P["line", G[c.at].at]) ELSE c

parsepipe(P, G, i) ==
  LET c == P["exec", i]
  IN IF peek(G, c.at, {"|"}) THEN Both("pipe", c, P["pipe", G[c.at].at]) ELSE c

parseblock(P, G, i) ==
  LET c == P["line", G[i].at]
  IN IF peek(G, c.at, {")"}) THEN parseredirs(G, Parsed(G[c.at].at, c.cmd)) ELSE Panic

parseexec(P, G, i) ==
  LET e == parseargs(G, <<>>, parseredirs(G, Parsed(i, <<"exec">>)))
  IN IF peek(G, i, {"("}) THEN parseblock(P, G, i)
     ELSE IF e.c.at = 0 THEN Panic ELSE Parsed(e.c.at, Fill(e.c.cmd, e.args))

parsecmd(s) ==
  LET G == Lexed(s)
      P[k \in {"line", "pipe", "exec"}, i \in 1..Len(s) + 1] ==
        CASE k = "line" -> parseline(P, G, i)
          [] k = "pipe" -> parsepipe(P, G, i)
          [] k = "exec" -> parseexec(P, G, i)
      c == P["line", 1]
  IN IF Skip(s, c.at) = Len(s) + 1 THEN c.cmd ELSE <<"panic">>

\* nulterminate(): where it writes a 0.
RECURSIVE nulterminate(_)

nulterminate(cmd) ==
  CASE cmd[1] = "exec" -> {cmd[2][k][2] : k \in DOMAIN cmd[2]}
    [] cmd[1] = "redir" -> {cmd[4][2]} \cup nulterminate(cmd[2])
    [] cmd[1] = "back" -> nulterminate(cmd[2])
    [] OTHER -> nulterminate(cmd[2]) \cup nulterminate(cmd[3])

(***************************************************************************)
(* The grammar, over the words and symbols of the line:                    *)
(*   line  ->  pipe {"&"} [";" line]         pipe  ->  exec ["|" pipe]     *)
(*   exec  ->  "(" line ")" {redir}  or  {word or redir}                   *)
(* Each operator is the set of trees that derive a sequence of tokens.     *)
(***************************************************************************)

\* A word is a maximal run of characters; ">>" is one symbol.
RECURSIVE Tokens(_, _)
Tokens(s, i) ==
  IF i > Len(s) THEN <<>>
  ELSE IF s[i] = " " THEN Tokens(s, i + 1)
  ELSE LET j == IF s[i] = "a" THEN CHOOSE k \in i + 1..Len(s) + 1 :
                                     /\ \A m \in i..k - 1 : s[m] = "a"
                                     /\ k > Len(s) \/ s[k] # "a"
                ELSE IF i < Len(s) /\ s[i] = ">" /\ s[i + 1] = ">" THEN i + 2 ELSE i + 1
       IN <<[tok |-> s[i], word |-> <<i, j>>]>> \o Tokens(s, j)

Where(t, tok) == {k \in DOMAIN t : t[k].tok = tok}
Past(t, k) == SubSeq(t, k + 1, Len(t))

RECURSIVE Wrapped(_, _)
Wrapped(cmd, t) ==    \* redirections only
  IF t = <<>> THEN {cmd}
  ELSE IF Len(t) >= 2 /\ t[1].tok \in {"<", ">"} /\ t[2].tok = "a"
       THEN Wrapped(redircmd(cmd, t[1].tok, t[2].word), Past(t, 2)) ELSE {}

RECURSIVE Pick(_, _)
Pick(t, ks) ==        \* the tokens at positions ks, in order
  IF t = <<>> THEN <<>>
  ELSE Pick(Front(t), ks) \o (IF Len(t) \in ks THEN <<t[Len(t)]>> ELSE <<>>)

Simple(t) ==
  LET args == {k \in Where(t, "a") : k = 1 \/ t[k - 1].tok \notin {"<", ">"}}
      words == Pick(t, args)
  IN IF Len(words) >= MAXARGS THEN {}
     ELSE Wrapped(<<"exec", [k \in DOMAIN words |-> words[k].word]>>, Pick(t, DOMAIN t \ args))

\* The trees of the tokens i .. j of t.
Line(t) ==
  LET D[k \in {"line", "backed", "pipe", "exec"}, i \in 1..Len(t) + 1, j \in 0..Len(t)] ==
        LET splits(kind, tok, l, r) ==
              UNION {{<<kind, x, y>> : x \in D[l, i, m - 1], y \in D[r, m + 1, j]}
                       : m \in {n \in i..j : t[n].tok = tok}}
        IN CASE k = "line" -> D["backed", i, j] \cup splits("list", ";", "backed", "line")
             [] k = "backed" -> D["pipe", i, j] \cup
                  (IF i <= j /\ t[j].tok = "&" THEN {<<"back", c>> : c \in D["backed", i, j - 1]} ELSE {})
             [] k = "pipe" -> D["exec", i, j] \cup splits("pipe", "|", "exec", "pipe")
             [] k = "exec" ->
                  IF i <= j /\ t[i].tok = "("
                  THEN UNION {UNION {Wrapped(c, SubSeq(t, m + 1, j)) : c \in D["line", i + 1, m - 1]}
                                : m \in {n \in i..j : t[n].tok = ")"}}
                  ELSE Simple(SubSeq(t, i, j))
  IN D["line", 1, Len(t)]

(***************************************************************************)
(* Properties.                                                             *)
(***************************************************************************)

ParserInit == cmdline = <<>>

\* getcmd(): one more character of the line.
ParserNext == \E c \in Letters : Append(cmdline, c) \in CmdLines /\ cmdline' = Append(cmdline, c)

\* parsecmd() accepts exactly the lines of the grammar, and the tree it builds is the
\* only one: nesting, the order of redirections, and the ends of the words included.
\* nulterminate() then ends every word where it ends, through every kind of command, and
\* writes no 0 elsewhere.
ParsesGrammar ==
  LET tokens == Tokens(cmdline, 1)
      derived == Line(tokens)
  IN /\ {parsecmd(cmdline)} = IF derived = {} THEN {<<"panic">>} ELSE derived
     /\ \A cmd \in derived :
          nulterminate(cmd) = {t.word[2] : t \in {u \in Range(tokens) : u.tok = "a"}}

================================================================================

------------------------------ MODULE Scanner ------------------------------
(***************************************************************************)
(* The scanner of query files (internal/scanner/scanner.go), driven the way *)
(* the parser drives it: Scan until EOF or an Illegal token.  The source is *)
(* a sequence of bytes, of which the model keeps the ones that the scanner  *)
(* tells apart; a step is one iteration of one of its loops.                *)
(***************************************************************************)
EXTENDS Integers, Sequences, FiniteSets

CONSTANT Source   \* the query files: sequences of Byte

(* "x" a letter, "0" a digit, "e1" "e2" the two bytes of a letter beyond    *)
(* ASCII, "other" any other ASCII byte.  "bom" stands for the three bytes   *)
(* of a byte order mark.                                                    *)
Byte == {"x", "0", "other", "e1", "e2", "bom", "nul", "space", "newline",
         "'", "dquote", "$", "-", "/", "*", ";"}

ASSUME SourceAssumption == Source \subseteq Seq(Byte)

VARIABLES
  src,    \* the file being scanned
  at,     \* Scanner.ch, prevCh, offset, rdOffset; did next() report an error
  mode,   \* the loop the scanner is in; "scan" between two tokens
  lo,     \* offs: where the token begins
  count,  \* depth of a block comment; bytes of a dollar quote left to skip
  toks    \* the tokens returned so far

vars == <<src, at, mode, lo, count, toks>>

-----------------------------------------------------------------------------
(* next(): one rune, which is two bytes wide for a letter beyond ASCII.     *)
Decode(s, p) ==
  IF p >= Len(s) THEN [ch |-> "eof", w |-> 0]
  ELSE IF s[p + 1] = "e1" /\ p + 1 < Len(s) /\ s[p + 2] = "e2" THEN [ch |-> "e", w |-> 2]
  ELSE IF s[p + 1] \in {"e1", "e2"} THEN [ch |-> "badutf8", w |-> 1]
  ELSE [ch |-> s[p + 1], w |-> 1]

Advance(s, a) ==
  LET r == Decode(s, a.rd)
  IN [ch |-> r.ch, prevCh |-> a.ch, off |-> a.rd, rd |-> a.rd + r.w,
      err |-> a.err \/ r.ch \in {"nul", "badutf8"} \/ (r.ch = "bom" /\ a.rd > 0)]
Advance2(s, a) == Advance(s, Advance(s, a))

Peek(s, a) == IF a.rd < Len(s) THEN s[a.rd + 1] ELSE "nul"

IsSpace(ch)  == ch \in {"space", "newline"}
IsLetter(ch) == ch \in {"x", "e"}
IsWord(ch)   == IsLetter(ch) \/ ch = "0"
Positive(ch) == ch \notin {"eof", "nul"}     \* s.ch > 0

-----------------------------------------------------------------------------
(* The token ends before the current character.  Its kind decides whether   *)
(* the parser asks for another one.                                         *)
Emit(tok, a) ==
  /\ toks' = Append(toks, [tok |-> tok, lo |-> lo, hi |-> a.off])
  /\ mode' = IF tok \in {"EOF", "Illegal"} THEN "end" ELSE "scan"
  /\ at' = a
  /\ UNCHANGED <<src, lo, count>>

Move(a, m, n) == at' = a /\ mode' = m /\ count' = n /\ UNCHANGED <<src, lo, toks>>

Start == [ch |-> "space", prevCh |-> "space", off |-> 0, rd |-> 0, err |-> FALSE]

Init ==
  /\ src \in Source
  /\ at = LET a == Advance(src, Start) IN IF a.ch = "bom" THEN Advance(src, a) ELSE a
  /\ mode = "scan" /\ lo = 0 /\ count = 0 /\ toks = <<>>

SkipWhitespace ==
  /\ mode = "scan" /\ IsSpace(at.ch)
  /\ Move(Advance(src, at), "scan", 0)

(* Scan: what the first character says.                                     *)
(* Mutant: the token is said to begin at rdOffset.                          *)
BeginAtRead(m, a, n) ==
  /\ mode = "scan" /\ ~IsSpace(at.ch)
  /\ lo' = at.rd /\ mode' = m /\ at' = a /\ count' = n
  /\ UNCHANGED <<src, toks>>
Begin(m, a, n) ==
  /\ mode = "scan" /\ ~IsSpace(at.ch)
  /\ lo' = at.off /\ mode' = m /\ at' = a /\ count' = n
  /\ UNCHANGED <<src, toks>>

ScanDispatch ==
  \/ at.ch = "-" /\ Peek(src, at) = "-" /\ Begin("line", at, 0)
  \/ at.ch = "/" /\ Peek(src, at) = "*" /\ Begin("block", Advance2(src, at), 1)
  \/ at.ch = "'" /\ Begin("single", Advance(src, at), 0)
  \/ at.ch = "dquote" /\ Begin("double", Advance(src, at), 0)
  \/ at.ch = "$" /\ Begin("tag", Advance(src, at), 0)
  \/ at.ch = ";" /\ Begin("semicolon", Advance(src, at), 0)
  \/ at.ch = "eof" /\ Begin("eof", at, 0)
  \/ /\ at.ch \notin {"'", "dquote", "$", ";", "eof"}
     /\ ~(at.ch = "-" /\ Peek(src, at) = "-")
     /\ ~(at.ch = "/" /\ Peek(src, at) = "*")
     /\ Begin("fragment", at, 0)

ScanSemicolon == mode = "semicolon" /\ Emit("Semicolon", at)
ScanEOF       == mode = "eof" /\ Emit("EOF", at)

ScanLineComment ==
  /\ mode = "line"
  /\ IF at.ch \in {"newline", "eof"} THEN Emit("LineComment", at)
     ELSE Move(Advance(src, at), "line", 0)

(* Mutant: block comments do not nest.                                      *)
ScanBlockFlat ==
  /\ mode = "block"
  /\ \/ at.ch = "eof" /\ Emit("Illegal", at)
     \/ at.ch = "*" /\ Peek(src, at) = "/" /\ Emit("BlockComment", Advance2(src, at))
     \/ /\ at.ch # "eof" /\ ~(at.ch = "*" /\ Peek(src, at) = "/")
        /\ Move(Advance(src, at), "block", 1)

ScanBlockComment ==
  /\ mode = "block"
  /\ \/ count = 0 /\ Emit("BlockComment", at)
     \/ count > 0 /\ at.ch = "eof" /\ Emit("Illegal", at)
     \/ /\ count > 0 /\ at.ch = "*" /\ Peek(src, at) = "/"
        /\ Move(Advance2(src, at), "block", count - 1)
     \/ /\ count > 0 /\ at.ch = "/" /\ Peek(src, at) = "*"
        /\ Move(Advance2(src, at), "block", count + 1)
     \/ /\ count > 0 /\ at.ch # "eof"
        /\ ~(at.ch = "*" /\ Peek(src, at) = "/") /\ ~(at.ch = "/" /\ Peek(src, at) = "*")
        /\ Move(Advance(src, at), "block", count)

(* scanSingleQuoteString and scanDoubleQuoteString: a doubled quote is part *)
(* of the literal.                                                          *)
ScanQuoted(m, quote, tok) ==
  /\ mode = m
  /\ \/ ~Positive(at.ch) /\ Emit("Illegal", at)
     \/ at.ch = quote /\ Peek(src, at) = quote /\ Move(Advance2(src, at), m, 0)
     \/ at.ch = quote /\ Peek(src, at) # quote /\ Emit(tok, Advance(src, at))
     \/ Positive(at.ch) /\ at.ch # quote /\ Move(Advance(src, at), m, 0)

(* scanDollarQuoteString.  bytes.Index counts bytes; the two loops that     *)
(* follow it call next() once for each of them.                             *)
Occurs(s, tag, p) == p + Len(tag) <= Len(s) /\ SubSeq(s, p + 1, p + Len(tag)) = tag
Index(s, from, tag) == {p \in from..Len(s) : Occurs(s, tag, p)}

ScanDollarTag ==
  LET a    == Advance(src, at)
      tag  == SubSeq(src, lo + 1, a.off)
      hits == Index(src, a.off, tag)
  IN /\ mode = "tag"
     /\ \/ at.ch # "$" /\ IsWord(at.ch) /\ Move(a, "tag", 0)
        \/ at.ch # "$" /\ ~IsWord(at.ch) /\ Emit("Illegal", at)
        \/ at.ch = "$" /\ hits = {} /\ Emit("Illegal", a)
        \/ \E p \in hits :
             /\ at.ch = "$" /\ \A q \in hits : p <= q
             /\ Move(a, "dollar", p - a.off + Len(tag))

ScanDollarBody ==
  /\ mode = "dollar"
  /\ \/ count = 0 /\ Emit("String", at)
     \/ count > 0 /\ Move(Advance(src, at), "dollar", count - 1)

(* scanQueryFragment: anything that is not a string or a comment.  A dollar *)
(* sign after a letter or a digit is part of an identifier.                 *)
EndsFragment ==
  \/ ~Positive(at.ch)
  \/ at.ch \in {";", "'", "dquote"}
  \/ at.ch = "-" /\ Peek(src, at) = "-"
  \/ at.ch = "/" /\ Peek(src, at) = "*"
  \/ at.ch = "$" /\ ~IsWord(at.prevCh)

ScanQueryFragment ==
  /\ mode = "fragment"
  /\ \/ EndsFragment /\ Emit("QueryFragment", at)
     \/ ~EndsFragment /\ at.ch = "$" /\ Move(at, "identifier", 0)
     \/ ~EndsFragment /\ at.ch # "$" /\ Move(Advance(src, at), "fragment", 0)

(* Mutant: the loop over an identifier stops at its dollar sign.            *)
ScanIdentifierStops ==
  /\ mode = "identifier"
  /\ IF IsWord(at.ch) THEN Move(Advance(src, at), "identifier", 0)
     ELSE Move(at, "fragment", 0)
ScanIdentifier ==
  /\ mode = "identifier"
  /\ IF IsWord(at.ch) \/ at.ch = "$" THEN Move(Advance(src, at), "identifier", 0)
     ELSE Move(at, "fragment", 0)

Ended == mode = "end" /\ UNCHANGED vars

Next ==
  \/ SkipWhitespace \/ ScanDispatch \/ ScanSemicolon \/ ScanEOF
  \/ ScanLineComment \/ ScanBlockComment
  \/ ScanQuoted("single", "'", "String") \/ ScanQuoted("double", "dquote", "QuotedIdent")
  \/ ScanDollarTag \/ ScanDollarBody
  \/ ScanQueryFragment \/ ScanIdentifier
  \/ Ended

Spec == Init /\ [][Next]_vars

(* The scanner runs in the goroutine of Generate, with nothing to wait for. *)
FairSpec == Spec /\ WF_vars(Next)

-----------------------------------------------------------------------------
(* The lexical grammar of Postgres that the tokens stand for, stated on the *)
(* bytes l + 1 .. h of the source (token.go).                               *)
Pair(p, c, d) == p >= 0 /\ p + 2 <= Len(src) /\ src[p + 1] = c /\ src[p + 2] = d

IsLineComment(l, h) ==
  /\ Pair(l, "-", "-") /\ h >= l + 2
  /\ \A p \in (l + 1)..h : src[p] # "newline"
  /\ h = Len(src) \/ src[h + 1] = "newline"

(* A comment closes where as many delimiters closed as opened; delimiters   *)
(* do not overlap.                                                          *)
IsBlockComment(l, h) ==
  LET delim[p \in l..Len(src)] ==
        /\ Pair(p, "/", "*") \/ (p > l /\ Pair(p, "*", "/"))
        /\ p > l => ~delim[p - 1]
      number(c, d, k) == Cardinality({p \in l..(k - 2) : delim[p] /\ Pair(p, c, d)})
      closed(k) == number("/", "*", k) = number("*", "/", k)
  IN Pair(l, "/", "*") /\ closed(h) /\ h > l + 2 /\ \A k \in (l + 2)..(h - 1) : ~closed(k)

(* Quotes are even in number and the next byte does not double the last.    *)
IsQuoted(q, l, h) ==
  LET quotes(k) == Cardinality({p \in (l + 1)..k : src[p] = q})
      closed(k) == src[k] = q /\ quotes(k) % 2 = 0 /\ (k = Len(src) \/ src[k + 1] # q)
  IN l < h /\ src[l + 1] = q /\ closed(h) /\ \A k \in (l + 1)..(h - 1) : ~closed(k)

(* $tag$ ... $tag$, up to the first place where the tag comes again.        *)
IsDollarQuoted(l, h) ==
  \E m \in 2..(h - l) :
    LET tag  == SubSeq(src, l + 1, l + m)
        ends == {p \in (l + 2 * m)..Len(src) : SubSeq(src, p - m + 1, p) = tag}
    IN /\ tag[1] = "$" /\ tag[m] = "$"
       /\ \A i \in 2..(m - 1) : tag[i] \in {"x", "0", "e1", "e2"}
       /\ h \in ends /\ \A p \in ends : h <= p

(* A fragment goes up to the first byte that begins another token.          *)
IsQueryFragment(l, h) ==
  LET begins(p) ==
        \/ src[p + 1] \in {";", "'", "dquote"} \/ Pair(p, "-", "-") \/ Pair(p, "/", "*")
        \/ src[p + 1] = "$" /\ ~(p > l /\ src[p] \in {"x", "0", "e2", "$"})
  IN l < h /\ (\A p \in l..(h - 1) : ~begins(p)) /\ (h = Len(src) \/ begins(h))

IsToken(tok, l, h) ==
  CASE tok = "LineComment"   -> IsLineComment(l, h)
    [] tok = "BlockComment"  -> IsBlockComment(l, h)
    [] tok = "String"        -> IsQuoted("'", l, h) \/ IsDollarQuoted(l, h)
    [] tok = "QuotedIdent"   -> IsQuoted("dquote", l, h)
    [] tok = "QueryFragment" -> IsQueryFragment(l, h)
    [] tok = "Semicolon"     -> h = l + 1 /\ src[h] = ";"
    [] tok = "EOF"           -> l = h /\ h = Len(src)

Tokens == {"LineComment", "BlockComment", "String", "QuotedIdent", "QueryFragment", "Semicolon", "EOF"}

-----------------------------------------------------------------------------
TypeOK ==
  /\ src \in Seq(Byte)
  /\ at.off \in 0..at.rd /\ at.rd \in 0..Len(src)
  /\ mode \in {"scan", "line", "block", "single", "double", "tag", "dollar", "semicolon",
               "eof", "fragment", "identifier", "end"}
  /\ lo \in 0..Len(src) /\ count \in Nat
  /\ \A i \in DOMAIN toks : toks[i].lo \in 0..toks[i].hi /\ toks[i].hi \in 0..Len(src)

(* Nothing of the file is lost or read twice: tokens come in order, do not  *)
(* overlap, and only white space (or a leading byte order mark) lies        *)
(* between them.  SourceSQL and the positions of pggen.arg rely on it.      *)
Blank(l, h) == \A p \in (l + 1)..h : IsSpace(src[p]) \/ (p = 1 /\ src[p] = "bom")
TokensTile ==
  \A i \in DOMAIN toks :
    LET prev == IF i = 1 THEN 0 ELSE toks[i - 1].hi
    IN prev <= toks[i].lo /\ Blank(prev, toks[i].lo)

(* TokensTile needs to know where the next token may begin: after the last  *)
(* one, with blanks only up to the current character (between tokens) or    *)
(* the first character (inside one), and what a blank character covers.     *)
Kind  == Tokens \cup {"Illegal"}
Token == [tok : Kind, lo : Nat, hi : Nat]
LastHi == IF toks = <<>> THEN 0 ELSE toks[Len(toks)].hi
SInv ==
  /\ TypeOK /\ toks \in Seq(Token) /\ TokensTile
  /\ IsSpace(at.ch) => Blank(at.off, at.rd)
  /\ mode = "scan" => LastHi <= at.off /\ Blank(LastHi, at.off)
  /\ mode \notin {"scan", "end"} => lo <= at.off /\ LastHi <= lo /\ Blank(LastHi, lo)

(* Every token is what its kind says, by the grammar: a semicolon in a      *)
(* string or a comment never ends a query, a quote in a comment opens       *)
(* nothing.  A token is Illegal only where no token fits.                   *)
LastToken == toks[Len(toks)]
TokenGrammar ==
  toks # <<>> =>
    IF LastToken.tok # "Illegal" THEN IsToken(LastToken.tok, LastToken.lo, LastToken.hi)
    ELSE \A tok \in Tokens, h \in LastToken.lo..Len(src) : ~IsToken(tok, LastToken.lo, h)

(* "p.next() // make progress" (parser.go): no token but EOF and Illegal is *)
(* empty, so the parser's loops come to an end.                             *)
TokensAdvance ==
  \A i \in DOMAIN toks : toks[i].tok \notin {"EOF", "Illegal"} => toks[i].lo < toks[i].hi

(* Scanning ends, at EOF or at an Illegal token.                            *)
ScanEnds == <>(mode = "end")
=============================================================================

-------------------------- MODULE Scanner_proofs --------------------------
(***************************************************************************)
(* For every file, invalid UTF-8, NUL bytes and unterminated literals       *)
(* included, the tokens tile the file.                                      *)
(***************************************************************************)
EXTENDS Scanner, TLAPS

(* next() moves to where the reader was and never beyond the end; a blank   *)
(* character covers blank bytes.                                            *)
LEMMA AdvanceFacts ==
  ASSUME NEW s \in Seq(Byte), NEW a, a.rd \in 0..Len(s)
  PROVE  LET b == Advance(s, a)
         IN /\ b.off = a.rd /\ b.rd \in b.off..Len(s)
            /\ IsSpace(b.ch) => \A p \in (b.off + 1)..b.rd : IsSpace(s[p])
            /\ b.ch = "bom" => b.rd = b.off + 1 /\ s[b.rd] = "bom"
<1> DEFINE r == Decode(s, a.rd)
<1>1. /\ r.w \in 0..2 /\ a.rd + r.w <= Len(s)
      /\ r.ch \in {"space", "newline", "bom"} => r.w = 1 /\ s[a.rd + 1] = r.ch
  BY DEF Decode
<1>2. Advance(s, a).ch = r.ch /\ Advance(s, a).off = a.rd /\ Advance(s, a).rd = a.rd + r.w
  BY DEF Advance
<1> HIDE DEF r
<1> QED BY <1>1, <1>2 DEF IsSpace

(* The inductive invariant in the initial state.                            *)
LEMMA InitSInv == Init => SInv
<1> SUFFICES ASSUME Init PROVE SInv OBVIOUS
<1> DEFINE a == Advance(src, Start)
<1> DEFINE b == Advance(src, a)
<1>0. src \in Seq(Byte) BY SourceAssumption DEF Init
<1>1. Start.rd = 0 /\ 0 \in 0..Len(src) BY <1>0 DEF Start
<1>2. /\ a.off = 0 /\ a.rd \in 0..Len(src)
      /\ IsSpace(a.ch) => \A p \in (a.off + 1)..a.rd : IsSpace(src[p])
      /\ a.ch = "bom" => a.rd = 1 /\ src[1] = "bom"
  BY <1>0, <1>1, AdvanceFacts
<1>3. /\ b.off = a.rd /\ b.rd \in b.off..Len(src)
      /\ IsSpace(b.ch) => \A p \in (b.off + 1)..b.rd : IsSpace(src[p])
  BY <1>0, <1>2, AdvanceFacts
<1>4. at = IF a.ch = "bom" THEN b ELSE a BY DEF Init
<1> HIDE DEF a, b
<1>5. mode = "scan" /\ lo = 0 /\ count = 0 /\ toks = <<>> BY DEF Init
<1>6. /\ at.off \in 0..at.rd /\ at.rd \in 0..Len(src)
      /\ IsSpace(at.ch) => Blank(at.off, at.rd)
      /\ Blank(0, at.off)
  <2>1. CASE a.ch = "bom" BY <2>1, <1>0, <1>2, <1>3, <1>4 DEF Blank
  <2>2. CASE a.ch # "bom" BY <2>2, <1>0, <1>2, <1>4 DEF Blank
  <2> QED BY <2>1, <2>2
<1>7. TypeOK BY <1>0, <1>5, <1>6 DEF TypeOK
<1>8. TokensTile /\ toks \in Seq(Token) /\ LastHi = 0 BY <1>5 DEF TokensTile, LastHi
<1> QED BY <1>0, <1>5, <1>6, <1>7, <1>8 DEF SInv

(* The shapes of a step: the scanner moves on inside a token, or it returns *)
(* one that ends at the current character.                                  *)
LEMMA MoveSInv ==
  ASSUME SInv, NEW a, NEW m, NEW n \in Nat, Move(a, m, n), mode \notin {"scan", "end"},
         m \in {"line", "block", "single", "double", "tag", "dollar", "fragment", "identifier"},
         a.off \in at.off..a.rd, a.rd \in 0..Len(src),
         IsSpace(a.ch) => Blank(a.off, a.rd)
  PROVE  SInv'
<1>1. /\ src \in Seq(Byte) /\ at.off \in Nat /\ at.rd \in Nat /\ lo \in 0..Len(src) /\ lo <= at.off
      /\ \A i \in DOMAIN toks : toks[i].lo \in 0..toks[i].hi /\ toks[i].hi \in 0..Len(src)
  BY DEF SInv, TypeOK
<1>2. at' = a /\ mode' = m /\ count' = n /\ src' = src /\ lo' = lo /\ toks' = toks BY DEF Move
<1>3. TypeOK' BY <1>1, <1>2 DEF TypeOK
<1>4. TokensTile' /\ (toks \in Seq(Token))' /\ LastHi' = LastHi
  BY <1>2 DEF SInv, TokensTile, Blank, LastHi
<1>5. (IsSpace(at.ch) => Blank(at.off, at.rd))' BY <1>2 DEF Blank
<1>6. (lo <= at.off /\ LastHi <= lo /\ Blank(LastHi, lo))'
  BY <1>1, <1>2, <1>4 DEF SInv, Blank
<1> QED BY <1>2, <1>3, <1>4, <1>5, <1>6 DEF SInv

LEMMA EmitSInv ==
  ASSUME SInv, NEW a, NEW tok \in Kind, Emit(tok, a), mode \notin {"scan", "end"},
         a.off \in at.off..a.rd, a.rd \in 0..Len(src),
         IsSpace(a.ch) => Blank(a.off, a.rd)
  PROVE  SInv'
<1> DEFINE t == [tok |-> tok, lo |-> lo, hi |-> a.off]
<1>1. /\ src \in Seq(Byte) /\ at.off \in Nat /\ at.rd \in Nat /\ lo \in 0..Len(src) /\ lo <= at.off
      /\ toks \in Seq(Token) /\ LastHi <= lo /\ Blank(LastHi, lo) /\ count \in Nat
      /\ \A i \in DOMAIN toks : toks[i].lo \in 0..toks[i].hi /\ toks[i].hi \in 0..Len(src)
  BY DEF SInv, TypeOK
<1>2. at' = a /\ count' = count /\ src' = src /\ lo' = lo /\ toks' = Append(toks, t)
  BY DEF Emit
<1>3. mode' \in {"scan", "end"} BY DEF Emit
<1>4. t \in Token /\ t.lo = lo /\ t.hi = a.off BY <1>1 DEF Token
<1> HIDE DEF t
<1>5. /\ toks' \in Seq(Token) /\ Len(toks') = Len(toks) + 1 /\ toks'[Len(toks) + 1] = t
      /\ \A i \in 1..Len(toks) : toks'[i] = toks[i]
  BY <1>1, <1>2, <1>4
<1>6. TypeOK'
  <2>0. t.lo \in 0..t.hi /\ t.hi \in 0..Len(src) BY <1>1, <1>4
  <2>1. \A i \in 1..(Len(toks) + 1) : toks'[i].lo \in 0..toks'[i].hi /\ toks'[i].hi \in 0..Len(src)
    <3> TAKE i \in 1..(Len(toks) + 1)
    <3>1. CASE i = Len(toks) + 1 BY <3>1, <2>0, <1>5
    <3>2. CASE i \in 1..Len(toks) BY <3>2, <1>1, <1>5
    <3> QED BY <3>1, <3>2, <1>1
  <2>2. DOMAIN toks' = 1..(Len(toks) + 1) BY <1>5
  <2> QED BY <2>1, <2>2, <1>1, <1>2, <1>3 DEF TypeOK
<1>7. LastHi' = a.off BY <1>1, <1>4, <1>5 DEF LastHi
<1>8. TokensTile'
  <2> SUFFICES ASSUME NEW i \in 1..(Len(toks) + 1)
               PROVE  LET prev == IF i = 1 THEN 0 ELSE toks'[i - 1].hi
                      IN prev <= toks'[i].lo /\ Blank(prev, toks'[i].lo)
    <3>1. DOMAIN toks' = 1..(Len(toks) + 1) BY <1>5
    <3> QED BY <3>1, <1>2 DEF TokensTile, Blank
  <2>1. CASE i = Len(toks) + 1
    <3>1. (IF i = 1 THEN 0 ELSE toks'[i - 1].hi) = LastHi BY <2>1, <1>1, <1>5 DEF LastHi
    <3>2. toks'[i].lo = lo BY <2>1, <1>4, <1>5
    <3> QED BY <3>1, <3>2, <1>1
  <2>2. CASE i \in 1..Len(toks)
    <3>1. LET prev == IF i = 1 THEN 0 ELSE toks[i - 1].hi
          IN prev <= toks[i].lo /\ Blank(prev, toks[i].lo)
      BY <2>2, <1>1 DEF SInv, TokensTile
    <3>2. toks'[i] = toks[i] /\ (i # 1 => toks'[i - 1] = toks[i - 1]) BY <2>2, <1>1, <1>5
    <3> QED BY <3>1, <3>2
  <2> QED BY <2>1, <2>2, <1>1
<1>9. (IsSpace(at.ch) => Blank(at.off, at.rd))' BY <1>2 DEF Blank
<1>10. (LastHi <= at.off /\ Blank(LastHi, at.off))' BY <1>1, <1>2, <1>7 DEF Blank
<1> QED BY <1>3, <1>5, <1>6, <1>8, <1>9, <1>10 DEF SInv

(* Scan records where the token begins.                                     *)
LEMMA BeginSInv ==
  ASSUME SInv, NEW a, NEW m, NEW n \in Nat, Begin(m, a, n),
         m \in {"line", "block", "single", "double", "tag", "semicolon", "eof", "fragment"},
         a.off \in at.off..a.rd, a.rd \in 0..Len(src),
         IsSpace(a.ch) => Blank(a.off, a.rd)
  PROVE  SInv'
<1>1. /\ src \in Seq(Byte) /\ at.off \in 0..at.rd /\ at.rd \in 0..Len(src)
      /\ LastHi <= at.off /\ Blank(LastHi, at.off)
      /\ \A i \in DOMAIN toks : toks[i].lo \in 0..toks[i].hi /\ toks[i].hi \in 0..Len(src)
  BY DEF SInv, TypeOK, Begin
<1>2. at' = a /\ mode' = m /\ count' = n /\ src' = src /\ lo' = at.off /\ toks' = toks
  BY DEF Begin
<1>3. TypeOK' BY <1>1, <1>2 DEF TypeOK
<1>4. TokensTile' /\ (toks \in Seq(Token))' /\ LastHi' = LastHi
  BY <1>2 DEF SInv, TokensTile, Blank, LastHi
<1>5. (IsSpace(at.ch) => Blank(at.off, at.rd))' BY <1>2 DEF Blank
<1>6. (lo <= at.off /\ LastHi <= lo /\ Blank(LastHi, lo))' BY <1>1, <1>2, <1>4 DEF Blank
<1> QED BY <1>2, <1>3, <1>4, <1>5, <1>6 DEF SInv

(* Where one or two calls of next() lead, in the form the lemmas ask for.   *)
LEMMA Reached ==
  ASSUME SInv
  PROVE  \A a \in {at, Advance(src, at), Advance2(src, at)} :
           /\ a.off \in at.off..a.rd /\ a.rd \in 0..Len(src)
           /\ IsSpace(a.ch) => Blank(a.off, a.rd)
<1>1. src \in Seq(Byte) /\ at.off \in 0..at.rd /\ at.rd \in 0..Len(src) BY DEF SInv, TypeOK
<1> DEFINE b == Advance(src, at)
<1>2. /\ b.off = at.rd /\ b.rd \in b.off..Len(src)
      /\ IsSpace(b.ch) => Blank(b.off, b.rd)
  BY <1>1, AdvanceFacts DEF Blank
<1> HIDE DEF b
<1> DEFINE c == Advance(src, b)
<1>3. /\ c.off = b.rd /\ c.rd \in c.off..Len(src)
      /\ IsSpace(c.ch) => Blank(c.off, c.rd)
  BY <1>1, <1>2, AdvanceFacts DEF Blank
<1> HIDE DEF c
<1>4. b = Advance(src, at) /\ c = Advance2(src, at) BY DEF b, c, Advance2
<1> SUFFICES ASSUME NEW a \in {at, Advance(src, at), Advance2(src, at)}
             PROVE  /\ a.off \in at.off..a.rd /\ a.rd \in 0..Len(src)
                    /\ IsSpace(a.ch) => Blank(a.off, a.rd)
  OBVIOUS
<1>5. a \in {at, b, c} BY <1>4
<1> QED BY <1>1, <1>2, <1>3, <1>5 DEF SInv, IsSpace, Blank

(* Every step preserves the invariant.                                      *)
LEMMA NextSInv == SInv /\ [Next]_vars => SInv'
<1> SUFFICES ASSUME SInv, [Next]_vars PROVE SInv' OBVIOUS
<1>0. /\ at.off \in 0..at.rd /\ at.rd \in 0..Len(src) /\ src \in Seq(Byte) /\ count \in Nat
      /\ lo \in 0..Len(src)
  BY DEF SInv, TypeOK
<1>1. CASE SkipWhitespace
  <2> DEFINE a == Advance(src, at)
  <2>1. at' = a /\ mode' = "scan" /\ count' = 0 /\ src' = src /\ lo' = lo /\ toks' = toks
    BY <1>1 DEF SkipWhitespace, Move
  <2>2. a.off = at.rd /\ a.rd \in a.off..Len(src) /\ (IsSpace(a.ch) => Blank(a.off, a.rd))
    BY <1>0, AdvanceFacts DEF Blank
  <2> HIDE DEF a
  <2>3. Blank(LastHi, at.off) /\ Blank(at.off, at.rd) /\ LastHi <= at.off
    BY <1>1 DEF SkipWhitespace, SInv
  <2>4. LastHi \in Nat
    <3>1. CASE toks = <<>> BY <3>1 DEF LastHi
    <3>2. CASE toks # <<>>
      <4>1. toks \in Seq(Token) BY DEF SInv
      <4>2. toks[Len(toks)] \in Token BY <3>2, <4>1
      <4> QED BY <3>2, <4>2 DEF LastHi, Token
    <3> QED BY <3>1, <3>2
  <2>5. Blank(LastHi, a.off) /\ LastHi <= a.off BY <1>0, <2>2, <2>3, <2>4 DEF Blank
  <2>6. TypeOK' BY <1>0, <2>1, <2>2 DEF SInv, TypeOK
  <2>7. TokensTile' /\ (toks \in Seq(Token))' /\ LastHi' = LastHi
    BY <2>1 DEF SInv, TokensTile, Blank, LastHi
  <2>8. (IsSpace(at.ch) => Blank(at.off, at.rd))' /\ (LastHi <= at.off /\ Blank(LastHi, at.off))'
    BY <2>1, <2>2, <2>5, <2>7 DEF Blank
  <2> QED BY <2>1, <2>6, <2>7, <2>8 DEF SInv
<1>2. CASE ScanDispatch BY <1>2, Reached, BeginSInv DEF ScanDispatch
<1>3. CASE ScanSemicolon BY <1>3, Reached, EmitSInv DEF ScanSemicolon, Kind, Tokens
<1>4. CASE ScanEOF BY <1>4, Reached, EmitSInv DEF ScanEOF, Kind, Tokens
<1>5. CASE ScanLineComment BY <1>5, Reached, EmitSInv, MoveSInv DEF ScanLineComment, Kind, Tokens
<1>6. CASE ScanBlockComment
  <2>1. mode = "block" BY <1>6 DEF ScanBlockComment
  <2>2. count > 0 => count - 1 \in Nat BY <1>0
  <2>3. count + 1 \in Nat BY <1>0
  <2> QED BY <1>0, <1>6, <2>1, <2>2, <2>3, Reached, EmitSInv, MoveSInv DEF ScanBlockComment, Kind, Tokens
<1>7. CASE ScanQuoted("single", "'", "String")
  BY <1>7, Reached, EmitSInv, MoveSInv DEF ScanQuoted, Kind, Tokens
<1>8. CASE ScanQuoted("double", "dquote", "QuotedIdent")
  BY <1>8, Reached, EmitSInv, MoveSInv DEF ScanQuoted, Kind, Tokens
<1>9. CASE ScanDollarTag
  <2> DEFINE a == Advance(src, at)
  <2> DEFINE tag == SubSeq(src, lo + 1, a.off)
  <2> DEFINE hits == Index(src, a.off, tag)
  <2>1. mode = "tag" BY <1>9 DEF ScanDollarTag
  <2>2. a.off = at.rd BY <1>0, AdvanceFacts
  <2>3. Len(tag) \in Nat BY <1>0, <2>2
  <2>4. \A p \in hits : p - a.off + Len(tag) \in Nat BY <1>0, <2>2, <2>3 DEF Index
  <2>5. /\ a.off \in at.off..a.rd /\ a.rd \in 0..Len(src) /\ (IsSpace(a.ch) => Blank(a.off, a.rd))
        /\ at.off \in at.off..at.rd /\ (IsSpace(at.ch) => Blank(at.off, at.rd))
    BY Reached
  <2>6. \/ Move(a, "tag", 0) \/ Emit("Illegal", at) \/ Emit("Illegal", a)
        \/ \E p \in hits : Move(a, "dollar", p - a.off + Len(tag))
    BY <1>9 DEF ScanDollarTag
  <2> HIDE DEF a, tag, hits
  <2>7. CASE Move(a, "tag", 0) BY <2>7, <2>1, <2>5, MoveSInv
  <2>8. CASE Emit("Illegal", at) BY <1>0, <2>8, <2>1, <2>5, EmitSInv DEF Kind, Tokens
  <2>9. CASE Emit("Illegal", a) BY <2>9, <2>1, <2>5, EmitSInv DEF Kind, Tokens
  <2>10. CASE \E p \in hits : Move(a, "dollar", p - a.off + Len(tag))
    BY <2>10, <2>1, <2>4, <2>5, MoveSInv
  <2> QED BY <2>6, <2>7, <2>8, <2>9, <2>10
<1>10. CASE ScanDollarBody
  <2>1. count > 0 => count - 1 \in Nat BY <1>0
  <2> QED BY <1>10, <2>1, Reached, EmitSInv, MoveSInv DEF ScanDollarBody, Kind, Tokens
<1>11. CASE ScanQueryFragment BY <1>11, Reached, EmitSInv, MoveSInv DEF ScanQueryFragment, Kind, Tokens
<1>12. CASE ScanIdentifier BY <1>12, Reached, MoveSInv DEF ScanIdentifier
<1>13. CASE UNCHANGED vars
  BY <1>13 DEF vars, SInv, TypeOK, TokensTile, Blank, LastHi
<1> QED BY <1>1, <1>2, <1>3, <1>4, <1>5, <1>6, <1>7, <1>8, <1>9, <1>10, <1>11, <1>12, <1>13
        DEF Next, Ended

THEOREM SInvHolds == Spec => []SInv
<1> QED BY InitSInv, NextSInv, PTL DEF Spec

(* Offsets stay inside the file.                                            *)
THEOREM TypeCorrect == Spec => []TypeOK
<1>1. SInv => TypeOK BY DEF SInv
<1> QED BY <1>1, SInvHolds, PTL

(* No byte of any file is lost or scanned into two tokens.                  *)
THEOREM TokensAlwaysTile == Spec => []TokensTile
<1>1. SInv => TokensTile BY DEF SInv
<1> QED BY <1>1, SInvHolds, PTL
=============================================================================

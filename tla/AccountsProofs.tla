--------------------------- MODULE AccountsProofs ---------------------------
(***************************************************************************)
(* What Accounts guarantees for any number of users, tokens and requests:  *)
(* a token is redeemed once, for the account it was issued for, and what   *)
(* verifies an address or replaces a password is founded on a mail or a    *)
(* password.                                                               *)
(***************************************************************************)
EXTENDS Accounts, FiniteSetTheorems, TLAPS

USE NullAssumption

\* What a request carries at each of its steps.
Fits(c) ==
  /\ c.pc = "idle" <=> c = Idle
  /\ c.pc = "insert" => c.op = "register"
  /\ c.pc = "load" => c.op \in {"sendToken", "forgot"}
  /\ c.pc \in {"find", "mint", "mail"} => c.op \in {"register", "sendToken", "forgot"}
  /\ c.pc \in {"lookup", "redeem"} => c.op \in {"verify", "reset"} /\ c.token \in Tokens
  /\ c.pc = "mail" => c.token \in Tokens
  /\ c.pc = "compare" => c.op \in {"login", "change"} /\ c.token = NoToken
  /\ c.pc = "apply" => \/ c.op \in {"login", "change"} /\ c.token = NoToken
                       \/ c.op \in {"verify", "reset"} /\ c.token \in Tokens
  /\ c.pc \notin {"idle", "lookup"} => c.user \in Users
  /\ c.op \in {"register", "reset", "change"} => c.new \in Passwords

\* t was issued, and for u if it still has a row.
For(t, u) == token[t].age # "unborn" /\ (HasRow(t) => token[t].user = u)

\* What a request relies on at each of its steps.
Founded(c) ==
  /\ c.pc = "mail" => For(c.token, c.user)
  /\ c.pc = "lookup" => \E u \in Users : <<c.token, u>> \in mailed
  /\ c.pc = "redeem" => <<c.token, c.user>> \in mailed
  /\ c.pc = "apply" /\ c.token # NoToken =>
       /\ <<c.token, c.user>> \in mailed
       /\ token[c.token].age = "redeemed" /\ c.token \notin effective
  /\ c.pc = "apply" /\ c.op = "change" => c.given \in had[c.user]

CallsOK == \A r \in Requests : Fits(call[r]) /\ Founded(call[r])

\* No two requests have redeemed the same token.
HeldOnce ==
  \A r, q \in Requests :
    At(r, "apply") /\ At(q, "apply") /\ call[r].token = call[q].token
      /\ call[r].token # NoToken => r = q

TokensOK ==
  /\ \A t \in Tokens : HasRow(t) => token[t].user \in Users
  /\ \A t \in effective : token[t].age = "redeemed"
  /\ \A t \in Tokens, u \in Users : <<t, u>> \in mailed => For(t, u)

HadOK ==
  \A u \in Users : IF Registered(u) THEN password[u] \in had[u] ELSE had[u] = {}

IInv == TypeOK /\ CallsOK /\ HeldOnce /\ TokensOK /\ HadOK /\ VerifiedByMail
-----------------------------------------------------------------------------
\* Requests may end, those at "mail" having mailed their token or not.
Drop(D) ==
  /\ call' = [r \in Requests |-> IF r \in D THEN Idle ELSE call[r]]
  /\ UNCHANGED <<accounts, session, token, effective>>
  /\ mailed \subseteq mailed'
  /\ \A m \in mailed' \ mailed :
       \E r \in D : At(r, "mail") /\ m = <<call[r].token, call[r].user>>

\* A request goes on as c and nothing else changes.
Move(r, c) ==
  /\ call' = [call EXCEPT ![r] = c]
  /\ UNCHANGED <<accounts, session, token, mailed, effective>>
  /\ c \in Call /\ c.pc # "idle" /\ Fits(c) /\ Founded(c)
  /\ c.pc = "apply" => c.token = NoToken

\* A request that is over relies on nothing.
LEMMA IdleFits == Idle \in Call /\ Fits(Idle) /\ Founded(Idle)
BY DEF Idle, Call, Fits, Founded

\* What holds of a request keeps holding when others move or end.
LEMMA DropIInv ==
  ASSUME IInv, NEW D \in SUBSET Requests, Drop(D)
  PROVE  IInv'
<1> USE DEF IInv, Drop, accounts
<1>1. TypeOK'
  <2>1. mailed' \subseteq Tokens \X Users
    BY DEF TypeOK, CallsOK, Fits, At
  <2>2. call' \in [Requests -> Call]
    BY IdleFits DEF TypeOK
  <2>3. \A r \in Requests : (call[r].pc = "idle" <=> call[r] = Idle)'
    BY DEF TypeOK, Idle
  <2> QED BY <2>1, <2>2, <2>3 DEF TypeOK
<1>2. CallsOK'
  <2> SUFFICES ASSUME NEW r \in Requests PROVE (Fits(call[r]) /\ Founded(call[r]))'
    BY DEF CallsOK
  <2>1. CASE r \in D
    BY <2>1 DEF Fits, Founded, Idle
  <2>2. CASE r \notin D
    BY <2>2 DEF CallsOK, Fits, Founded, For, HasRow
  <2> QED BY <2>1, <2>2
<1>3. HeldOnce'
  BY DEF HeldOnce, At, Idle
<1>4. TokensOK'
  <2>1. \A t \in Tokens, u \in Users : <<t, u>> \in mailed' => For(t, u)
    BY DEF TokensOK, CallsOK, Founded, At
  <2> QED BY <2>1 DEF TokensOK, For, HasRow
<1>5. HadOK' /\ VerifiedByMail'
  BY DEF HadOK, Registered, VerifiedByMail
<1> QED BY <1>1, <1>2, <1>3, <1>4, <1>5

\* Nor does it matter that a request goes on, as a call that is founded.
LEMMA MoveIInv ==
  ASSUME IInv, NEW r \in Requests, NEW c, Move(r, c)
  PROVE  IInv'
<1> USE DEF IInv, Move, accounts
<1>1. TypeOK'
  BY DEF TypeOK, Idle, Fits
<1>2. CallsOK'
  <2> SUFFICES ASSUME NEW q \in Requests PROVE (Fits(call[q]) /\ Founded(call[q]))'
    BY DEF CallsOK
  <2>1. CASE q = r
    BY <2>1 DEF TypeOK, Fits, Founded, For, HasRow
  <2>2. CASE q # r
    BY <2>2 DEF TypeOK, CallsOK, Fits, Founded, For, HasRow
  <2> QED BY <2>1, <2>2
<1>3. HeldOnce'
  BY DEF HeldOnce, At, TypeOK
<1>4. TokensOK' /\ HadOK' /\ VerifiedByMail'
  BY DEF TokensOK, For, HasRow, HadOK, Registered, VerifiedByMail
<1> QED BY <1>1, <1>2, <1>3, <1>4

\* A request begins with a call that fits.
LEMMA StartMoves ==
  ASSUME IInv, NEW r \in Requests, Start(r)
  PROVE  \E c : Move(r, c) /\ At(r, "idle") /\ c.pc # "apply" /\ (c.op = "register" => c.pc = "insert")
<1> DEFINE Goal == \E c : /\ Move(r, c) /\ At(r, "idle") /\ c.pc # "apply"
                          /\ c.op = "register" => c.pc = "insert"
<1>1. ASSUME NEW c \in Call, Begin(r, c),
             \/ c.op = "register" /\ c.pc = "insert" /\ c.user \in Users /\ c.new \in Passwords
             \/ c.op \in {"sendToken", "forgot"} /\ c.pc = "load" /\ c.user \in Users
             \/ c.op = "login" /\ c.pc = "compare" /\ c.user \in Users /\ c.token = NoToken
             \/ /\ c.op = "change" /\ c.pc = "compare" /\ c.user \in Users /\ c.token = NoToken
                /\ c.new \in Passwords
             \/ /\ c.op = "verify" /\ c.pc = "lookup" /\ c.token \in Tokens
                /\ \E u \in Users : <<c.token, u>> \in mailed
             \/ /\ c.op = "reset" /\ c.pc = "lookup" /\ c.token \in Tokens /\ c.new \in Passwords
                /\ \E u \in Users : <<c.token, u>> \in mailed
      PROVE  Goal
  <2>1. Fits(c) /\ Founded(c) /\ c.pc # "idle" /\ c.pc # "apply"
    BY <1>1 DEF Fits, Founded, Idle
  <2> QED BY <1>1, <2>1 DEF Begin, Move
<1> HIDE DEF Goal
<1>2. ASSUME NEW u \in Users PROVE SendVerificationToken(r, u) \/ ForgotPassword(r, u) => Goal
  <2> DEFINE c(op) == [Idle EXCEPT !.op = op, !.pc = "load", !.user = u]
  <2>1. ASSUME NEW op \in {"sendToken", "forgot"}
        PROVE  c(op) \in Call /\ c(op).op = op /\ c(op).pc = "load" /\ c(op).user = u
    BY DEF Idle, Call
  <2>2. SendVerificationToken(r, u) \/ ForgotPassword(r, u) =>
          Begin(r, c("sendToken")) \/ Begin(r, c("forgot"))
    BY DEF SendVerificationToken, ForgotPassword
  <2> HIDE DEF c
  <2> QED BY <1>1, <2>1, <2>2
<1>3. ASSUME NEW u \in Users, NEW p \in Passwords PROVE Register(r, u, p) => Goal
  <2> DEFINE c == [Idle EXCEPT !.op = "register", !.pc = "insert", !.user = u, !.new = p]
  <2>1. c \in Call /\ c.op = "register" /\ c.pc = "insert" /\ c.user = u /\ c.new = p
    BY DEF Idle, Call
  <2>2. Register(r, u, p) => Begin(r, c)
    BY DEF Register
  <2> HIDE DEF c
  <2> QED BY <1>1, <2>1, <2>2
<1>4. ASSUME NEW u \in Users, NEW p \in Passwords PROVE Login(r, u, p) => Goal
  <2> DEFINE c == [Idle EXCEPT !.op = "login", !.pc = "compare", !.user = u, !.given = p]
  <2>1. c \in Call /\ c.op = "login" /\ c.pc = "compare" /\ c.user = u /\ c.token = NoToken
    BY DEF Idle, Call
  <2>2. Login(r, u, p) => Begin(r, c)
    BY DEF Login
  <2> HIDE DEF c
  <2> QED BY <1>1, <2>1, <2>2
<1>5. ASSUME NEW u \in Users, NEW p \in Passwords, NEW old \in Passwords \cup {NoPassword}
      PROVE  ChangePassword(r, u, old, p) => Goal
  <2> DEFINE c == [Idle EXCEPT !.op = "change", !.pc = "compare", !.user = u,
                               !.given = old, !.new = p]
  <2>1. /\ c \in Call /\ c.op = "change" /\ c.pc = "compare" /\ c.user = u /\ c.token = NoToken
        /\ c.new = p
    BY DEF Idle, Call
  <2>2. ChangePassword(r, u, old, p) => Begin(r, c)
    BY DEF ChangePassword
  <2> HIDE DEF c
  <2> QED BY <1>1, <2>1, <2>2
<1>6. ASSUME NEW t \in Tokens, NEW u \in Users, <<t, u>> \in mailed PROVE Verify(r, t) => Goal
  <2> DEFINE c == [Idle EXCEPT !.op = "verify", !.pc = "lookup", !.token = t]
  <2>1. c \in Call /\ c.op = "verify" /\ c.pc = "lookup" /\ c.token = t
    BY DEF Idle, Call
  <2>2. Verify(r, t) => Begin(r, c)
    BY DEF Verify
  <2> HIDE DEF c
  <2> QED BY <1>1, <1>6, <2>1, <2>2
<1>7. ASSUME NEW t \in Tokens, NEW u \in Users, <<t, u>> \in mailed, NEW p \in Passwords
      PROVE  ResetPassword(r, t, p) => Goal
  <2> DEFINE c == [Idle EXCEPT !.op = "reset", !.pc = "lookup", !.token = t, !.new = p]
  <2>1. c \in Call /\ c.op = "reset" /\ c.pc = "lookup" /\ c.token = t /\ c.new = p
    BY DEF Idle, Call
  <2>2. ResetPassword(r, t, p) => Begin(r, c)
    BY DEF ResetPassword
  <2> HIDE DEF c
  <2> QED BY <1>1, <1>7, <2>1, <2>2
<1>8. \A m \in mailed : m[1] \in Tokens /\ m[2] \in Users /\ <<m[1], m[2]>> \in mailed
  BY DEF IInv, TypeOK
<1>9. Goal
  BY <1>2, <1>3, <1>4, <1>5, <1>6, <1>7, <1>8 DEF Start
<1> QED BY <1>9 DEF Goal

-----------------------------------------------------------------------------
\* The writes, whose answers may be lost.
Registers(r) ==
  /\ At(r, "insert") /\ ~Registered(call[r].user)
  /\ SetPassword(call[r].user, call[r].new)
  /\ GoTo(r, "find") \/ End(r)
  /\ UNCHANGED <<session, token, mailed, effective>>

Mints(r, t) ==
  /\ At(r, "mint") /\ t \in Unborn
  /\ Born(r, t)
  /\ call' = [call EXCEPT ![r].pc = "mail", ![r].token = t] \/ End(r)
  /\ UNCHANGED <<accounts, session, mailed, effective>>

Redeems(r) ==
  /\ At(r, "redeem") /\ HasRow(call[r].token)
  /\ Gone(call[r].token)
  /\ GoTo(r, "apply") \/ End(r)
  /\ UNCHANGED <<accounts, session, mailed, effective>>

Writes(r) == Registers(r) \/ (\E t \in Tokens : Mints(r, t)) \/ Redeems(r) \/ Apply(r)

\* A request that ends alone is a Drop.
LEMMA EndDrops ==
  ASSUME IInv, NEW r \in Requests, End(r),
         UNCHANGED <<accounts, session, token, mailed, effective>>
  PROVE  Drop({r})
BY DEF End, Drop, IInv, TypeOK

\* The operations that only read move the request or end it.
LEMMA ReadMoves ==
  ASSUME IInv, NEW r \in Requests,
         Load(r) \/ Find(r) \/ Lookup(r) \/ Compare(r)
  PROVE  \/ Drop({r}) /\ ~At(r, "apply") /\ call[r].op # "register" /\ End(r)
         \/ \E c : Move(r, c) /\ c.op = call[r].op /\ (c.op = "register" => c.user = call[r].user)
                     /\ c.pc # "insert"
<1> DEFINE Goal == \/ Drop({r}) /\ ~At(r, "apply") /\ call[r].op # "register" /\ End(r)
                   \/ \E c : Move(r, c) /\ c.op = call[r].op
                        /\ (c.op = "register" => c.user = call[r].user)
                        /\ c.pc # "insert"
<1>1. Fits(call[r]) /\ Founded(call[r]) /\ call[r] \in Call /\ call \in [Requests -> Call]
  BY DEF IInv, CallsOK, TypeOK
<1>2. ASSUME End(r), UNCHANGED <<accounts, session, token, mailed, effective>>,
             call[r].pc \in {"load", "lookup", "compare"}
      PROVE  Goal
  BY <1>1, <1>2, EndDrops DEF Fits, At
<1>3. ASSUME NEW pc, GoTo(r, pc), UNCHANGED <<accounts, session, token, mailed, effective>>,
             \/ pc = "find" /\ At(r, "load")
             \/ pc = "mint" /\ At(r, "find")
             \/ pc = "apply" /\ At(r, "compare")
                  /\ (call[r].op = "change" => call[r].given \in had[call[r].user])
      PROVE  Goal
  <2> DEFINE c == [call[r] EXCEPT !.pc = pc]
  <2>1. /\ c \in Call /\ c.pc = pc /\ c.op = call[r].op /\ c.user = call[r].user
        /\ c.token = call[r].token /\ c.given = call[r].given /\ c.new = call[r].new
    BY <1>1, <1>3 DEF Call
  <2>2. call' = [call EXCEPT ![r] = c]
    BY <1>3 DEF GoTo
  <2> HIDE DEF c
  <2>3. Fits(c) /\ Founded(c)
    BY <1>1, <1>3, <2>1 DEF Fits, Founded, At, Idle
  <2>4. Move(r, c) /\ c.pc # "insert"
    BY <1>1, <1>3, <2>1, <2>2, <2>3 DEF Move, Fits, At
  <2> QED BY <2>1, <2>4
<1>4. ASSUME Load(r) PROVE Goal
  BY <1>2, <1>3, <1>4 DEF Load, At
<1>5. ASSUME Find(r) PROVE Goal
  <2>1. CASE GoTo(r, "mint")
    BY <1>3, <1>5, <2>1 DEF Find
  <2>2. ASSUME NEW t \in LiveTokens(call[r].user, TypeOf(r)),
               call' = [call EXCEPT ![r].pc = "mail", ![r].token = t]
        PROVE  Goal
    <3> DEFINE c == [call[r] EXCEPT !.pc = "mail", !.token = t]
    <3>1. t \in Tokens /\ For(t, call[r].user)
      BY DEF LiveTokens, For, HasRow
    <3>2. /\ c \in Call /\ c.pc = "mail" /\ c.op = call[r].op /\ c.user = call[r].user
          /\ c.token = t /\ c.new = call[r].new
      BY <1>1, <3>1 DEF Call
    <3>3. call' = [call EXCEPT ![r] = c]
      BY <2>2
    <3> HIDE DEF c
    <3>4. Fits(c) /\ Founded(c)
      BY <1>1, <1>5, <3>1, <3>2 DEF Fits, Founded, At, Idle, Find
    <3> QED BY <1>5, <3>2, <3>3, <3>4 DEF Move, Find
  <2> QED BY <1>5, <2>1, <2>2 DEF Find
<1>6. ASSUME Lookup(r) PROVE Goal
  <2>1. CASE End(r)
    BY <1>2, <1>6, <2>1 DEF Lookup, At
  <2>2. ASSUME HasRow(call[r].token),
               call' = [call EXCEPT ![r].pc = "redeem", ![r].user = token[call[r].token].user]
        PROVE  Goal
    <3> DEFINE c == [call[r] EXCEPT !.pc = "redeem", !.user = token[call[r].token].user]
    <3>1. /\ token[call[r].token].user \in Users
          /\ <<call[r].token, token[call[r].token].user>> \in mailed
      BY <1>1, <1>6, <2>2 DEF IInv, TokensOK, Fits, Founded, For, Lookup, At
    <3>2. /\ c \in Call /\ c.pc = "redeem" /\ c.op = call[r].op
          /\ c.user = token[call[r].token].user
          /\ c.token = call[r].token /\ c.new = call[r].new
      BY <1>1, <3>1 DEF Call
    <3>3. call' = [call EXCEPT ![r] = c]
      BY <2>2
    <3> HIDE DEF c
    <3>4. Fits(c) /\ Founded(c) /\ c.op # "register"
      BY <1>1, <1>6, <3>1, <3>2 DEF Fits, Founded, At, Idle, Lookup
    <3> QED BY <1>6, <3>2, <3>3, <3>4 DEF Move, Lookup
  <2> QED BY <1>6, <2>1, <2>2 DEF Lookup, HasRow
<1>7. ASSUME Compare(r) PROVE Goal
  <2>1. call[r].pc = "compare" /\ call[r].user \in Users
    BY <1>1, <1>7 DEF Compare, At, Fits
  <2>2. CASE End(r)
    BY <1>2, <1>7, <2>1, <2>2 DEF Compare
  <2>3. CASE Registered(call[r].user) /\ password[call[r].user] = call[r].given /\ GoTo(r, "apply")
    BY <1>3, <1>7, <2>1, <2>3 DEF Compare, IInv, HadOK
  <2> QED BY <1>7, <2>2, <2>3 DEF Compare
<1> QED BY <1>4, <1>5, <1>6, <1>7

-----------------------------------------------------------------------------
\* A request that goes on is the same call at another step.
LEMMA GoToCall ==
  ASSUME IInv, NEW r \in Requests, NEW pc \in {"find", "apply"}, GoTo(r, pc)
  PROVE  \E c \in Call :
           /\ call' = [call EXCEPT ![r] = c]
           /\ c.pc = pc /\ c.op = call[r].op /\ c.user = call[r].user
           /\ c.given = call[r].given /\ c.new = call[r].new /\ c.token = call[r].token
<1> DEFINE c == [call[r] EXCEPT !.pc = pc]
<1>1. call[r] \in Call
  BY DEF IInv, TypeOK
<1>2. /\ c \in Call /\ c.pc = pc /\ c.op = call[r].op /\ c.user = call[r].user
      /\ c.given = call[r].given /\ c.new = call[r].new /\ c.token = call[r].token
  BY <1>1 DEF Call
<1>3. call' = [call EXCEPT ![r] = c]
  BY DEF GoTo
<1> HIDE DEF c
<1> QED BY <1>2, <1>3

\* The invariants about the calls, when one of them becomes c.
LEMMA CallsKept ==
  ASSUME IInv, NEW r \in Requests, NEW c \in Call, call' = [call EXCEPT ![r] = c],
         Fits(c), Founded(c)',
         \A q \in Requests \ {r} : Founded(call[q]) => Founded(call[q])',
         c.pc = "apply" /\ c.token # NoToken =>
           \A q \in Requests \ {r} : ~(At(q, "apply") /\ call[q].token = c.token)
  PROVE  /\ call' \in [Requests -> Call] /\ CallsOK' /\ HeldOnce'
         /\ \A q \in Requests : (call[q].pc = "idle" <=> call[q] = Idle)'
<1>1. call \in [Requests -> Call]
  BY DEF IInv, TypeOK
<1>2. call' \in [Requests -> Call] /\ call'[r] = c /\ \A q \in Requests \ {r} : call'[q] = call[q]
  BY <1>1
<1>3. \A q \in Requests : (call[q].pc = "idle" <=> call[q] = Idle)'
  BY <1>2 DEF Fits, IInv, TypeOK
<1>4. CallsOK'
  <2> SUFFICES ASSUME NEW q \in Requests PROVE (Fits(call[q]) /\ Founded(call[q]))'
    BY DEF CallsOK
  <2>1. CASE q = r
    BY <1>2, <2>1 DEF Fits, Founded, For, HasRow
  <2>2. CASE q # r
    BY <1>2, <2>2 DEF Fits, IInv, CallsOK
  <2> QED BY <2>1, <2>2
<1>5. HeldOnce'
  BY <1>2 DEF HeldOnce, At, IInv
<1> QED BY <1>2, <1>3, <1>4, <1>5

\* A new account: nobody else relies on what it changes.
LEMMA RegistersIInv ==
  ASSUME IInv, NEW r \in Requests, Registers(r)
  PROVE  IInv'
<1> USE DEF IInv, SetPassword
<1>1. Fits(call[r]) /\ call[r] \in Call /\ call[r].pc = "insert"
  BY DEF CallsOK, TypeOK, Registers, At
<1>2. call[r].user \in Users /\ call[r].new \in Passwords /\ call[r].op = "register"
  BY <1>1 DEF Fits
<1>3. PICK c \in Call :
        /\ call' = [call EXCEPT ![r] = c]
        /\ \/ c = Idle
           \/ /\ c.pc = "find" /\ c.op = call[r].op /\ c.user = call[r].user
              /\ c.new = call[r].new
  BY GoToCall, IdleFits DEF Registers, End
<1>4. Fits(c) /\ Founded(c)' /\ c.pc # "apply"
  BY <1>1, <1>2, <1>3 DEF Fits, Founded, Idle
<1>5. /\ password' = [password EXCEPT ![call[r].user] = call[r].new]
      /\ had' = [had EXCEPT ![call[r].user] = @ \cup {call[r].new}]
      /\ UNCHANGED <<verified, session, token, mailed, effective>>
  BY DEF Registers
<1>6. \A q \in Requests \ {r} : Founded(call[q]) => Founded(call[q])'
  <2> SUFFICES ASSUME NEW q \in Requests \ {r}, Founded(call[q]) PROVE Founded(call[q])'
    OBVIOUS
  <2>1. call'[q] = call[q]
    BY <1>3 DEF TypeOK
  <2>2. \A u \in Users : had[u] \subseteq had'[u]
    BY <1>5 DEF TypeOK
  <2>3. call[q].pc = "apply" => call[q].user \in Users
    BY DEF CallsOK, Fits
  <2> QED BY <1>5, <2>1, <2>2, <2>3 DEF Founded, For, HasRow
<1>7. /\ call' \in [Requests -> Call] /\ CallsOK' /\ HeldOnce'
      /\ \A q \in Requests : (call[q].pc = "idle" <=> call[q] = Idle)'
  BY <1>3, <1>4, <1>6, CallsKept
<1>8. TypeOK'
  BY <1>2, <1>5, <1>7 DEF TypeOK
<1>9. TokensOK' /\ VerifiedByMail'
  BY <1>5 DEF TokensOK, For, HasRow, VerifiedByMail
<1>10. HadOK'
  BY <1>2, <1>5 DEF HadOK, Registered, TypeOK
<1> QED BY <1>7, <1>8, <1>9, <1>10

\* A new token had no row, so no request carries it yet.
LEMMA MintsIInv ==
  ASSUME IInv, NEW r \in Requests, NEW t \in Tokens, Mints(r, t)
  PROVE  IInv'
<1> USE DEF IInv, accounts
<1>1. Fits(call[r]) /\ call[r] \in Call /\ call[r].pc = "mint"
  BY DEF CallsOK, TypeOK, Mints, At
<1>2. call[r].user \in Users /\ call[r].op \in {"register", "sendToken", "forgot"}
  BY <1>1 DEF Fits
<1>3. /\ token[t].age = "unborn"
      /\ UNCHANGED <<password, verified, had, session, mailed, effective>>
      /\ token' = [token EXCEPT ![t] = [user |-> call[r].user, type |-> TypeOf(r), age |-> "live"]]
  BY DEF Mints, Unborn, Born
<1>4. PICK c \in Call :
        /\ call' = [call EXCEPT ![r] = c]
        /\ \/ c = Idle
           \/ /\ c.pc = "mail" /\ c.op = call[r].op /\ c.user = call[r].user
              /\ c.token = t /\ c.new = call[r].new
  <2>1. CASE End(r)
    BY <2>1, IdleFits DEF End
  <2>2. CASE call' = [call EXCEPT ![r].pc = "mail", ![r].token = t]
    <3> DEFINE c == [call[r] EXCEPT !.pc = "mail", !.token = t]
    <3>1. /\ c \in Call /\ c.pc = "mail" /\ c.op = call[r].op /\ c.user = call[r].user
          /\ c.token = t /\ c.new = call[r].new
      BY <1>1 DEF Call
    <3>2. call' = [call EXCEPT ![r] = c]
      BY <2>2
    <3> HIDE DEF c
    <3> QED BY <3>1, <3>2
  <2> QED BY <2>1, <2>2 DEF Mints
<1>5. /\ token'[t].age = "live" /\ token'[t].user = call[r].user
      /\ \A s \in Tokens \ {t} : token'[s] = token[s]
  BY <1>3 DEF TypeOK
<1>6. Fits(c) /\ Founded(c)' /\ c.pc # "apply"
  BY <1>1, <1>2, <1>4, <1>5 DEF Fits, Founded, For, Idle
<1>7. \A q \in Requests \ {r} : Founded(call[q]) => Founded(call[q])'
  <2> SUFFICES ASSUME NEW q \in Requests \ {r}, Founded(call[q]) PROVE Founded(call[q])'
    OBVIOUS
  <2>1. call'[q] = call[q] /\ Fits(call[q])
    BY <1>4 DEF TypeOK, CallsOK
  <2>2. call[q].pc = "mail" => call[q].token \in Tokens \ {t}
    BY <1>3, <2>1 DEF Fits, Founded, For
  <2>3. call[q].pc = "apply" /\ call[q].token # NoToken => call[q].token \in Tokens \ {t}
    BY <1>3, <2>1 DEF Fits, Founded
  <2> QED BY <1>3, <1>5, <2>1, <2>2, <2>3 DEF Founded, For, HasRow
<1>8. /\ call' \in [Requests -> Call] /\ CallsOK' /\ HeldOnce'
      /\ \A q \in Requests : (call[q].pc = "idle" <=> call[q] = Idle)'
  BY <1>4, <1>6, <1>7, CallsKept
<1>9. TypeOK'
  <2>1. token' \in [Tokens -> Token]
    BY <1>2, <1>3 DEF TypeOK, Token, TypeOf, Types
  <2> QED BY <1>3, <1>8, <2>1 DEF TypeOK
<1>10. TokensOK'
  BY <1>2, <1>3, <1>5 DEF TokensOK, For, HasRow
<1>11. HadOK' /\ VerifiedByMail'
  BY <1>3 DEF HadOK, Registered, VerifiedByMail
<1> QED BY <1>8, <1>9, <1>10, <1>11

\* A token that is redeemed had a row, so nobody else holds it.
LEMMA RedeemsIInv ==
  ASSUME IInv, NEW r \in Requests, Redeems(r)
  PROVE  IInv'
<1> USE DEF IInv, accounts
<1> DEFINE t == call[r].token
<1>1. /\ Fits(call[r]) /\ Founded(call[r]) /\ call[r] \in Call
      /\ call[r].pc = "redeem" /\ HasRow(t)
  BY DEF CallsOK, TypeOK, Redeems, At
<1>2. /\ t \in Tokens /\ t # NoToken /\ call[r].user \in Users
      /\ call[r].op \in {"verify", "reset"} /\ <<t, call[r].user>> \in mailed
  BY <1>1 DEF Fits, Founded
<1>3. /\ UNCHANGED <<password, verified, had, session, mailed, effective>>
      /\ token' = [token EXCEPT ![t] = NoRow("redeemed")]
  BY DEF Redeems, Gone
<1>4. PICK c \in Call :
        /\ call' = [call EXCEPT ![r] = c]
        /\ \/ c = Idle
           \/ /\ c.pc = "apply" /\ c.op = call[r].op /\ c.user = call[r].user
              /\ c.token = t /\ c.new = call[r].new
  BY GoToCall, IdleFits DEF Redeems, End
<1>5. /\ token'[t].age = "redeemed" /\ t \notin effective
      /\ \A s \in Tokens \ {t} : token'[s] = token[s]
  BY <1>1, <1>2, <1>3 DEF TypeOK, TokensOK, NoRow, HasRow
<1>6. Fits(c) /\ Founded(c)'
  BY <1>1, <1>2, <1>3, <1>4, <1>5 DEF Fits, Founded, Idle
<1>7. \A q \in Requests \ {r} : ~(At(q, "apply") /\ call[q].token = t)
  BY <1>1, <1>2 DEF CallsOK, Founded, HasRow, At
<1>8. \A q \in Requests \ {r} : Founded(call[q]) => Founded(call[q])'
  <2> SUFFICES ASSUME NEW q \in Requests \ {r}, Founded(call[q]) PROVE Founded(call[q])'
    OBVIOUS
  <2>1. call'[q] = call[q] /\ Fits(call[q])
    BY <1>4 DEF TypeOK, CallsOK
  <2> QED BY <1>3, <1>5, <2>1 DEF Fits, Founded, For, HasRow
<1>9. /\ call' \in [Requests -> Call] /\ CallsOK' /\ HeldOnce'
      /\ \A q \in Requests : (call[q].pc = "idle" <=> call[q] = Idle)'
  <2>1. c.pc = "apply" => c.token = t
    BY <1>4 DEF Idle
  <2>2. c.pc = "apply" => \A q \in Requests \ {r} : ~(At(q, "apply") /\ call[q].token = c.token)
    BY <1>7, <2>1
  <2>3. call' = [call EXCEPT ![r] = c]
    BY <1>4
  <2> HIDE DEF IInv
  <2> QED BY <1>6, <1>8, <2>2, <2>3, CallsKept
<1>10. TypeOK'
  <2>1. token' \in [Tokens -> Token]
    BY <1>2, <1>3 DEF TypeOK, Token, NoRow, Types
  <2> QED BY <1>3, <1>9, <2>1 DEF TypeOK
<1>11. TokensOK'
  BY <1>2, <1>3, <1>5 DEF TokensOK, For, HasRow, TypeOK
<1>12. HadOK' /\ VerifiedByMail'
  BY <1>3 DEF HadOK, Registered, VerifiedByMail
<1> QED BY <1>9, <1>10, <1>11, <1>12

\* A token that works had one holder, which ends.
LEMMA ApplyIInv ==
  ASSUME IInv, NEW r \in Requests, Apply(r)
  PROVE  IInv'
<1> USE DEF IInv, accounts
<1>1. Fits(call[r]) /\ Founded(call[r]) /\ call[r] \in Call /\ call[r].pc = "apply"
  BY DEF CallsOK, TypeOK, Apply, At
<1>2. /\ call[r].user \in Users /\ call[r].token \in Tokens \cup {NoToken}
      /\ call[r].op \in {"reset", "change"} => call[r].new \in Passwords
      /\ call[r].op = "verify" => call[r].token \in Tokens
  BY <1>1 DEF Fits
<1>3. /\ UNCHANGED <<token, mailed>>
      /\ effective' = effective \cup ({call[r].token} \ {NoToken})
      /\ call' = [call EXCEPT ![r] = Idle]
  BY DEF Apply, End
<1>4. /\ session' \subseteq Users /\ verified' \subseteq Users
      /\ \A u \in verified' \ verified : call[r].op = "verify" /\ u = call[r].user
      /\ password' \in [Users -> Passwords \cup {NoPassword}]
      /\ had' \in [Users -> SUBSET Passwords]
      /\ \A u \in Users : had[u] \subseteq had'[u]
      /\ \A u \in Users : \/ password'[u] = password[u] /\ had'[u] = had[u]
                         \/ password'[u] \in had'[u]
  <2>1. CASE call[r].op = "login" /\ session' = session \cup {call[r].user} /\ UNCHANGED accounts
    BY <1>2, <2>1 DEF TypeOK
  <2>2. CASE /\ call[r].op = "verify" /\ verified' = verified \cup {call[r].user}
             /\ UNCHANGED <<password, had, session>>
    BY <1>2, <2>2 DEF TypeOK
  <2>3. CASE /\ call[r].op \in {"reset", "change"} /\ SetPassword(call[r].user, call[r].new)
             /\ UNCHANGED session
    BY <1>2, <2>3 DEF TypeOK, SetPassword
  <2> QED BY <2>1, <2>2, <2>3 DEF Apply, Effect
<1>5. \A q \in Requests \ {r} : Founded(call[q]) => Founded(call[q])'
  <2> SUFFICES ASSUME NEW q \in Requests \ {r}, Founded(call[q]) PROVE Founded(call[q])'
    OBVIOUS
  <2>1. call'[q] = call[q] /\ Fits(call[q])
    BY <1>3 DEF TypeOK, CallsOK
  <2>2. call[q].pc = "apply" /\ call[q].token # NoToken => call[q].token # call[r].token
    BY <1>1 DEF HeldOnce, At
  <2>3. call[q].pc = "apply" /\ call[q].token # NoToken => call[q].token \notin effective'
    BY <1>3, <2>2 DEF Founded
  <2>4. call[q].pc = "apply" /\ call[q].op = "change" => call[q].given \in had'[call[q].user]
    BY <1>4, <2>1 DEF Fits, Founded
  <2> QED BY <1>3, <2>1, <2>3, <2>4 DEF Founded, For, HasRow
<1>6. Fits(Idle) /\ Founded(Idle)' /\ Idle \in Call /\ Idle.pc # "apply"
  BY IdleFits DEF Founded, Idle
<1>7. /\ call' \in [Requests -> Call] /\ CallsOK' /\ HeldOnce'
      /\ \A q \in Requests : (call[q].pc = "idle" <=> call[q] = Idle)'
  BY <1>3, <1>5, <1>6, CallsKept
<1>8. TypeOK'
  BY <1>2, <1>3, <1>4, <1>7 DEF TypeOK
<1>9. TokensOK'
  BY <1>1, <1>3 DEF TokensOK, For, HasRow, Founded
<1>10. HadOK'
  BY <1>4 DEF HadOK, Registered, TypeOK
<1>11. VerifiedByMail'
  <2>1. ASSUME NEW u \in verified' \ verified
        PROVE  call[r].token \in effective' /\ <<call[r].token, u>> \in mailed'
    BY <1>1, <1>2, <1>3, <1>4, <2>1 DEF Founded
  <2> QED BY <1>3, <2>1 DEF VerifiedByMail
<1> QED BY <1>7, <1>8, <1>9, <1>10, <1>11

\* Time, the cron and the end of a session.
\* What the clock, the cron and the end of a session change.
LEMMA TickShapes ==
  ASSUME IInv, Tick \/ \E u \in Users : Logout(u)
  PROVE  /\ UNCHANGED <<password, verified, had, mailed, effective, call>>
         /\ session' \subseteq Users /\ token' \in [Tokens -> Token]
         /\ \A t \in Tokens : \/ token'[t] = token[t]
                              \/ /\ token[t].age \in {"live", "edge"} /\ token'[t].user = token[t].user
                                 /\ token'[t].age \in {"edge", "expired"}
                              \/ token[t].age = "expired" /\ token'[t].age = "swept"
<1> USE DEF IInv, accounts
<1> DEFINE Goal == /\ UNCHANGED <<password, verified, had, mailed, effective, call>>
                   /\ session' \subseteq Users /\ token' \in [Tokens -> Token]
                   /\ \A t \in Tokens :
                        \/ token'[t] = token[t]
                        \/ /\ token[t].age \in {"live", "edge"} /\ token'[t].user = token[t].user
                           /\ token'[t].age \in {"edge", "expired"}
                        \/ token[t].age = "expired" /\ token'[t].age = "swept"
<1>1. ASSUME NEW t \in Tokens, Age(t) PROVE Goal
  BY <1>1 DEF Age, TypeOK, Token
<1>2. CASE RemoveExpiredTokens
  BY <1>2 DEF RemoveExpiredTokens, TypeOK, Token, NoRow, Types
<1>3. ASSUME NEW u \in Users, Logout(u) PROVE Goal
  BY <1>3 DEF Logout, TypeOK
<1> QED BY <1>1, <1>2, <1>3 DEF Tick

\* Tokens that age or are swept keep what is said of them.
LEMMA TickIInv ==
  ASSUME IInv, Tick \/ \E u \in Users : Logout(u)
  PROVE  IInv'
<1> USE DEF IInv, accounts
<1>1. /\ UNCHANGED <<password, verified, had, mailed, effective, call>>
      /\ session' \subseteq Users /\ token' \in [Tokens -> Token]
      /\ \A t \in Tokens : \/ token'[t] = token[t]
                           \/ /\ token[t].age \in {"live", "edge"} /\ token'[t].user = token[t].user
                              /\ token'[t].age \in {"edge", "expired"}
                           \/ token[t].age = "expired" /\ token'[t].age = "swept"
  BY TickShapes
<1>2. \A t \in Tokens : \A u : For(t, u) => For(t, u)'
  BY <1>1 DEF For, HasRow
<1>3. CallsOK'
  BY <1>1, <1>2 DEF CallsOK, Fits, Founded
<1>4. TypeOK' /\ HeldOnce' /\ HadOK' /\ VerifiedByMail'
  BY <1>1 DEF TypeOK, HeldOnce, At, HadOK, Registered, VerifiedByMail
<1>5. TokensOK'
  BY <1>1, <1>2 DEF TokensOK, HasRow, TypeOK
<1> QED BY <1>3, <1>4, <1>5

-----------------------------------------------------------------------------
\* What each operation of a request does, when all it depends on answers.
LEMMA ServeShapes ==
  ASSUME IInv, NEW r \in Requests, Serve(r)
  PROVE  \/ /\ Drop({r}) /\ End(r) /\ ~At(r, "apply")
            /\ call[r].op = "register" =>
                 \/ At(r, "insert") /\ Registered(call[r].user)
                 \/ At(r, "mail") /\ mailed' = mailed \cup {<<call[r].token, call[r].user>>}
         \/ \E c : /\ Move(r, c) /\ ~At(r, "apply") /\ c.pc # "insert"
                   /\ c.op = call[r].op /\ (c.op = "register" => c.user = call[r].user)
         \/ Registers(r) /\ GoTo(r, "find")
         \/ \E t \in Tokens : Mints(r, t) /\ call' = [call EXCEPT ![r].pc = "mail", ![r].token = t]
         \/ Redeems(r) /\ GoTo(r, "apply")
         \/ Apply(r)
<1>1. CASE Insert(r)
  <2>1. CASE Registered(call[r].user)
    BY <1>1, <2>1, EndDrops DEF Insert, At
  <2> QED BY <1>1, <2>1 DEF Insert, Registers
<1>2. CASE Load(r) \/ Find(r) \/ Lookup(r) \/ Compare(r)
  BY <1>2, ReadMoves DEF Load, Find, Lookup, Compare, At
<1>3. CASE Mint(r)
  BY <1>3 DEF Mint, Mints, Unborn
<1>4. CASE Mail(r)
  BY <1>4 DEF Mail, Deliver, End, Drop, At, IInv, TypeOK
<1>5. CASE Redeem(r)
  <2>1. CASE ~HasRow(call[r].token)
    <3>1. Drop({r}) /\ End(r) /\ At(r, "redeem")
      BY <1>5, <2>1, EndDrops DEF Redeem
    <3>2. call[r].op # "register"
      BY <3>1 DEF At, IInv, CallsOK, Fits
    <3> QED BY <3>1, <3>2 DEF At
  <2> QED BY <1>5, <2>1 DEF Redeem, Redeems
<1> QED BY <1>1, <1>2, <1>3, <1>4, <1>5 DEF Serve

\* What a failure does.
LEMMA FaultShapes ==
  ASSUME IInv, NEW r \in Requests, Fault(r)
  PROVE  Drop({r}) \/ Writes(r)
<1>1. CASE QueryFails(r)
  BY <1>1, EndDrops DEF QueryFails
<1>2. CASE AnswerLost(r)
  BY <1>2 DEF AnswerLost, Writes, Registers, Mints, Redeems, Apply, Unborn
<1>3. CASE MailFails(r)
  BY <1>3 DEF MailFails, Deliver, End, Drop, IInv, TypeOK
<1> QED BY <1>1, <1>2, <1>3 DEF Fault

\* A crash ends all requests.
LEMMA CrashDrops == Crash => Drop(Requests)
BY DEF Crash, Drop

\* All writes, whether answered or not.
LEMMA WritesIInv ==
  ASSUME IInv, NEW r \in Requests, Writes(r)
  PROVE  IInv'
BY RegistersIInv, MintsIInv, RedeemsIInv, ApplyIInv DEF Writes

\* Nobody is registered and no token issued.
LEMMA InitIInv == Init => IInv
<1> SUFFICES ASSUME Init PROVE IInv
  OBVIOUS
<1>1. TypeOK
  <2>1. \A a \in {"unborn", "swept"} : NoRow(a) \in Token
    BY DEF NoRow, Token, Types
  <2>2. token \in [Tokens -> Token]
    BY <2>1 DEF Init
  <2>3. password \in [Users -> Passwords \cup {NoPassword}] /\ had \in [Users -> SUBSET Passwords]
    BY DEF Init
  <2>4. /\ call \in [Requests -> Call]
        /\ \A r \in Requests : call[r].pc = "idle" <=> call[r] = Idle
    BY IdleFits DEF Init, Idle
  <2> QED BY <2>2, <2>3, <2>4 DEF Init, TypeOK
<1>2. CallsOK /\ HeldOnce
  BY IdleFits DEF Init, CallsOK, HeldOnce, At, Idle
<1>3. TokensOK /\ HadOK /\ VerifiedByMail
  BY DEF Init, TokensOK, HasRow, NoRow, HadOK, Registered, VerifiedByMail
<1> QED BY <1>1, <1>2, <1>3 DEF IInv

\* Every step preserves the invariant.
LEMMA NextIInv == IInv /\ [Next]_vars => IInv'
<1> SUFFICES ASSUME IInv, [Next]_vars PROVE IInv'
  OBVIOUS
<1>1. ASSUME NEW r \in Requests, Start(r) PROVE IInv'
  BY <1>1, StartMoves, MoveIInv
<1>2. ASSUME NEW r \in Requests, Serve(r) PROVE IInv'
  BY <1>2, ServeShapes, DropIInv, MoveIInv, WritesIInv DEF Writes
<1>3. ASSUME NEW r \in Requests, Fault(r) PROVE IInv'
  BY <1>3, FaultShapes, DropIInv, WritesIInv
<1>4. CASE Crash
  BY <1>4, CrashDrops, DropIInv
<1>5. CASE UNCHANGED vars
  BY <1>5 DEF vars, accounts, IInv, TypeOK, CallsOK, Fits, Founded, For, HasRow, HeldOnce, At,
              TokensOK, HadOK, Registered, VerifiedByMail
<1> QED BY <1>1, <1>2, <1>3, <1>4, <1>5, TickIInv DEF Next, HealthyNext

\* The invariant holds for any number of users, tokens and requests.
LEMMA Invariance == Spec => []IInv
<1> QED BY InitIInv, NextIInv, PTL DEF Spec

\* Tables, sessions and requests keep their types.
THEOREM TypeCorrect == Spec => []TypeOK
BY Invariance, PTL DEF IInv

\* An address is verified only after a token mailed to it was redeemed.
THEOREM AddressesAreProven == Spec => []VerifiedByMail
BY Invariance, PTL DEF IInv

\* Of the requests that present a token, however many at the same time,
\* verifyToken lets one through.
THEOREM TokensAreRedeemedOnce == Spec => []RedeemedOnce
<1>1. IInv => RedeemedOnce
  <2> SUFFICES ASSUME IInv, NEW t \in Tokens
               PROVE  Cardinality(Holders(t)) <= 1 /\ (t \in effective => Holders(t) = {})
    BY DEF RedeemedOnce
  <2>1. t \in effective => Holders(t) = {}
    BY DEF Holders, IInv, CallsOK, Founded, At
  <2>2. Holders(t) = {} \/ \E r : Holders(t) = {r}
    BY DEF Holders, IInv, HeldOnce
  <2>3. Cardinality(Holders(t)) <= 1
    BY <2>2, FS_EmptySet, FS_Singleton
  <2> QED BY <2>1, <2>3
<1> QED BY <1>1, Invariance, PTL

-----------------------------------------------------------------------------
\* Who may change the password of an account, and to what.
Proven(u) ==
  \E r \in Requests :
    /\ At(r, "apply") /\ call[r].user = u /\ call[r].new = password'[u]
    /\ <<call[r].token, u>> \in mailed \/ call[r].given \in had[u]

\* Only registering, which needs a free address, and the last step of a reset
\* or a change write a password.
LEMMA WritesProven ==
  ASSUME IInv, NEW r \in Requests, Writes(r), NEW u \in Users,
         Registered(u), password'[u] # password[u]
  PROVE  Proven(u)
<1>1. password \in [Users -> Passwords \cup {NoPassword}]
  BY DEF IInv, TypeOK
<1>2. CASE Registers(r)
  BY <1>1, <1>2 DEF Registers, SetPassword
<1>3. CASE Apply(r)
  <2>1. Fits(call[r]) /\ Founded(call[r]) /\ call[r].pc = "apply"
    BY <1>3 DEF IInv, CallsOK, Apply, At
  <2>2. call[r].op \in {"reset", "change"} /\ SetPassword(call[r].user, call[r].new)
    BY <1>3 DEF Apply, Effect, accounts
  <2>3. call[r].user = u /\ call[r].new = password'[u]
    BY <1>1, <2>2 DEF SetPassword
  <2>4. <<call[r].token, u>> \in mailed \/ call[r].given \in had[u]
    BY <2>1, <2>2, <2>3, NullAssumption DEF Fits, Founded
  <2> QED BY <2>1, <2>3, <2>4 DEF Proven, At
<1>4. CASE (\E t \in Tokens : Mints(r, t)) \/ Redeems(r)
  BY <1>4 DEF Mints, Redeems, accounts
<1> QED BY <1>2, <1>3, <1>4 DEF Writes

\* An account's password is replaced only through a token mailed to its
\* address, or by somebody who gave a password the account has had.
THEOREM PasswordsAreProven == Spec => PasswordProven
<1>1. ASSUME IInv, [Next]_vars, NEW u \in Users, Registered(u), password'[u] # password[u]
      PROVE  Proven(u)
  <2> USE <1>1
  <2>1. ASSUME NEW r \in Requests, Serve(r) PROVE Proven(u)
    <3>1. Writes(r) \/ password' = password
      BY <2>1, ServeShapes DEF Writes, Drop, Move, accounts
    <3> QED BY <3>1, WritesProven
  <2>2. ASSUME NEW r \in Requests, Fault(r) PROVE Proven(u)
    <3>1. Writes(r) \/ password' = password
      BY <2>2, FaultShapes DEF Drop, accounts
    <3> QED BY <3>1, WritesProven
  <2>3. ~(\E r \in Requests : Start(r))
    BY StartMoves DEF Move, accounts
  <2>4. ~(Tick \/ \E w \in Users : Logout(w))
    BY TickShapes
  <2>5. ~Crash /\ ~UNCHANGED vars
    BY DEF Crash, vars, accounts
  <2> QED BY <2>1, <2>2, <2>3, <2>4, <2>5 DEF Next, HealthyNext
<1>2. IInv /\ [Next]_vars =>
        [\A u \in Users :
           Registered(u) /\ password'[u] # password[u] =>
             \E r \in Requests :
               /\ At(r, "apply") /\ call[r].user = u /\ call[r].new = password'[u]
               /\ <<call[r].token, u>> \in mailed \/ call[r].given \in had[u]]_vars
  BY <1>1 DEF Proven
<1> QED BY <1>2, Invariance, PTL DEF Spec, PasswordProven

-----------------------------------------------------------------------------
\* A step that redeems no token and ends no request that holds one.
LEMMA HoldersStay ==
  ASSUME IInv,
         effective' = effective,
         \A t \in Tokens : (token[t].age = "redeemed")' => token[t].age = "redeemed",
         \A r \in Requests : At(r, "apply") => call'[r] = call[r]
  PROVE  Wasted' \subseteq Wasted
BY DEF Wasted, Holders, At

\* The failure of a request does not touch the others in flight.
LEMMA OthersGoOn ==
  ASSUME IInv, NEW r \in Requests, Fault(r), NEW q \in Requests \ {r}
  PROVE  call'[q] = call[q]
<1>0. call \in [Requests -> Call]
  BY DEF IInv, TypeOK
<1>1. Drop({r}) => call'[q] = call[q]
  BY <1>0 DEF Drop
<1>2. ASSUME NEW t \in Tokens, Mints(r, t) PROVE call'[q] = call[q]
  BY <1>0, <1>2 DEF Mints, End
<1>3. Registers(r) \/ Redeems(r) \/ Apply(r) => call'[q] = call[q]
  BY <1>0 DEF Registers, Redeems, Apply, GoTo, End
<1> QED BY <1>1, <1>2, <1>3, FaultShapes DEF Writes

\* A failing request wastes no token but its own.
LEMMA FaultWastes ==
  ASSUME IInv, NEW r \in Requests, Fault(r), NEW t \in Wasted' \ Wasted
  PROVE  call[r].token = t
<1>0. call \in [Requests -> Call] /\ token \in [Tokens -> Token]
  BY DEF IInv, TypeOK
<1>1. \A q \in Requests \ {r} : call'[q] = call[q]
  BY OthersGoOn
<1>2. effective \subseteq effective'
  BY FaultShapes DEF Drop, Writes, Registers, Mints, Redeems, Apply
<1>3. \A s \in Tokens : token'[s].age = "redeemed" => token[s].age = "redeemed" \/ s = call[r].token
  <2> SUFFICES ASSUME NEW s \in Tokens, token'[s].age = "redeemed", s # call[r].token
               PROVE  token[s].age = "redeemed"
    OBVIOUS
  <2>1. ASSUME NEW x \in Tokens, Mints(r, x) PROVE token'[s] = token[s]
    <3>1. token'[x].age = "live" /\ \A y \in Tokens \ {x} : token'[y] = token[y]
      BY <1>0, <2>1 DEF Mints, Born
    <3> QED BY <3>1
  <2>2. Redeems(r) => token'[s] = token[s]
    BY <1>0 DEF Redeems, Gone
  <2>3. Registers(r) \/ Apply(r) \/ Drop({r}) => token' = token
    BY DEF Registers, Apply, Drop
  <2> QED BY <2>1, <2>2, <2>3, FaultShapes DEF Writes
<1> QED BY <1>1, <1>2, <1>3 DEF Wasted, Holders, At

\* Redeeming a token and the write it is for are two queries: only if its own
\* request fails between them, or the process ends, is a token used up for
\* nothing.
THEOREM OnlyFailuresWaste == Spec => WasteNeedsFailure
<1>1. ASSUME IInv, HealthyNext PROVE Wasted' \subseteq Wasted
  <2> USE <1>1
  <2>0. call \in [Requests -> Call] /\ token \in [Tokens -> Token]
    BY DEF IInv, TypeOK
  <2>1. ASSUME NEW r \in Requests, Start(r) PROVE Wasted' \subseteq Wasted
    <3>1. PICK c : Move(r, c) /\ At(r, "idle")
      BY <2>1, StartMoves
    <3> QED BY <2>0, <3>1, HoldersStay DEF Move, At
  <2>2. ASSUME NEW r \in Requests, Serve(r) PROVE Wasted' \subseteq Wasted
    <3>1. CASE Drop({r}) /\ ~At(r, "apply")
      BY <2>0, <3>1, HoldersStay DEF Drop
    <3>2. ASSUME NEW c, Move(r, c), ~At(r, "apply") PROVE Wasted' \subseteq Wasted
      BY <2>0, <3>2, HoldersStay DEF Move
    <3>3. CASE Registers(r)
      BY <2>0, <3>3, HoldersStay DEF Registers, At, GoTo, End
    <3>4. ASSUME NEW t \in Tokens, Mints(r, t) PROVE Wasted' \subseteq Wasted
      BY <2>0, <3>4, HoldersStay DEF Mints, Born, At, End
    <3>5. CASE Redeems(r) /\ GoTo(r, "apply")
      <4>1. /\ token' = [token EXCEPT ![call[r].token] = NoRow("redeemed")]
            /\ call' = [call EXCEPT ![r].pc = "apply"] /\ effective' = effective
            /\ call[r].pc = "redeem"
        BY <3>5 DEF Redeems, Gone, GoTo, At
      <4>2. call'[r].pc = "apply" /\ call'[r].token = call[r].token
        <5>1. PICK c \in Call : /\ call' = [call EXCEPT ![r] = c]
                               /\ c.pc = "apply" /\ c.token = call[r].token
          BY <3>5, GoToCall
        <5> QED BY <2>0, <5>1
      <4>3. \A q \in Requests \ {r} : call'[q] = call[q]
        BY <2>0, <4>1
      <4>4. \A t \in Tokens \ {call[r].token} : token'[t] = token[t]
        BY <2>0, <4>1
      <4> SUFFICES ASSUME NEW t \in Wasted' PROVE t \in Wasted
        OBVIOUS
      <4>5. t # call[r].token
        BY <4>2 DEF Wasted, Holders, At
      <4> QED BY <4>1, <4>3, <4>4, <4>5 DEF Wasted, Holders, At
    <3>6. CASE Apply(r)
      <4>1. /\ token' = token /\ effective' = effective \cup ({call[r].token} \ {NoToken})
            /\ \A q \in Requests \ {r} : call'[q] = call[q]
        BY <2>0, <3>6 DEF Apply, End
      <4> QED BY <4>1 DEF Wasted, Holders, At
    <3> QED BY <2>2, <3>1, <3>2, <3>3, <3>4, <3>5, <3>6, ServeShapes
  <2>3. ASSUME Tick \/ \E u \in Users : Logout(u) PROVE Wasted' \subseteq Wasted
    BY <2>3, TickShapes, HoldersStay
  <2> QED BY <2>1, <2>2, <2>3 DEF HealthyNext
<1>2. IInv /\ [Next]_vars =>
        [\A t \in Wasted' \ Wasted :
           /\ ~HealthyNext
           /\ Crash \/ \E r \in Requests : Fault(r) /\ call[r].token = t]_vars
  BY <1>1, FaultWastes DEF Next
<1> QED BY <1>2, Invariance, PTL DEF Spec, WasteNeedsFailure

-----------------------------------------------------------------------------
\* A step that neither adds an account nor takes back a mail, and in which
\* every registration that still has a mail to come goes on with it.
LEMMA StillAnnounced ==
  ASSUME IInv, UNCHANGED password, mailed \subseteq mailed',
         \A r \in Requests :
           call[r].op = "register" /\ ~At(r, "insert") =>
             \/ /\ call'[r].op = "register" /\ call'[r].user = call[r].user
                /\ call'[r].pc # "insert"
             \/ \E t \in Tokens : <<t, call[r].user>> \in mailed'
  PROVE  Unannounced' \subseteq Unannounced
BY DEF Unannounced, Registered, At

\* An account that a request adds is that of its own registration, or its
\* address has been mailed a token.
LEMMA NewAccounts ==
  ASSUME IInv, NEW r \in Requests, Writes(r), NEW u \in Users, Registered(u)', ~Registered(u)
  PROVE  \/ Registers(r) /\ call[r].op = "register" /\ call[r].user = u
         \/ \E t \in Tokens : <<t, u>> \in mailed
<1>0. /\ password \in [Users -> Passwords \cup {NoPassword}]
      /\ Fits(call[r]) /\ Founded(call[r])
  BY DEF IInv, TypeOK, CallsOK
<1>1. CASE Registers(r)
  BY <1>0, <1>1 DEF Registers, SetPassword, Registered, At, Fits
<1>2. CASE Apply(r)
  <2>1. call[r].pc = "apply"
    BY <1>2 DEF Apply, At
  <2>2. /\ call[r].op \in {"reset", "change"}
        /\ password' = [password EXCEPT ![call[r].user] = call[r].new]
    BY <1>2 DEF Apply, Effect, SetPassword, accounts, Registered
  <2>3. call[r].user = u
    BY <1>0, <2>2 DEF Registered
  <2>4. \/ call[r].token \in Tokens /\ <<call[r].token, u>> \in mailed
        \/ call[r].given \in had[u]
    BY <1>0, <2>1, <2>2, <2>3, NullAssumption DEF Founded, Fits
  <2> QED BY <2>4 DEF IInv, HadOK
<1>3. CASE (\E t \in Tokens : Mints(r, t)) \/ Redeems(r)
  BY <1>3 DEF Mints, Redeems, accounts, Registered
<1> QED BY <1>1, <1>2, <1>3 DEF Writes

\* A failing request leaves nobody without a mail but whom it registers.
LEMMA FaultAnnounces ==
  ASSUME IInv, NEW r \in Requests, Fault(r), NEW u \in Unannounced' \ Unannounced
  PROVE  call[r].op = "register" /\ call[r].user = u
<1>0. call \in [Requests -> Call] /\ u \in Users
  BY DEF IInv, TypeOK, Unannounced
<1>1. \A q \in Requests \ {r} : call'[q] = call[q]
  BY OthersGoOn
<1>2. mailed \subseteq mailed'
  BY FaultShapes DEF Drop, Writes, Registers, Mints, Redeems, Apply
<1>3. CASE Registered(u)
  BY <1>1, <1>2, <1>3 DEF Unannounced, At
<1>4. CASE ~Registered(u)
  <2>1. Registered(u)'
    BY DEF Unannounced
  <2>2. Writes(r)
    BY <1>4, <2>1, FaultShapes DEF Drop, accounts, Registered
  <2>3. \A t \in Tokens : <<t, u>> \notin mailed
    BY <1>2 DEF Unannounced
  <2> QED BY <1>0, <1>4, <2>1, <2>2, <2>3, NewAccounts
<1> QED BY <1>3, <1>4

\* Only a failure of the registration itself, or the end of the process, leaves
\* an account without a mailed token, though the token may be found, redeemed or
\* swept by others meanwhile.
THEOREM RegistrationsAreMailed == Spec => RegisteringMails
<1>1. ASSUME IInv, HealthyNext PROVE Unannounced' \subseteq Unannounced
  <2> USE <1>1
  <2>0. call \in [Requests -> Call] /\ password \in [Users -> Passwords \cup {NoPassword}]
    BY DEF IInv, TypeOK
  <2>1. ASSUME NEW r \in Requests, Start(r) PROVE Unannounced' \subseteq Unannounced
    <3>1. PICK c : Move(r, c) /\ At(r, "idle")
      BY <2>1, StartMoves
    <3>2. call[r].op = "none"
      BY <3>1 DEF At, IInv, TypeOK, Idle
    <3> QED BY <2>0, <3>1, <3>2, StillAnnounced DEF Move, At, accounts
  <2>2. ASSUME NEW r \in Requests, Serve(r) PROVE Unannounced' \subseteq Unannounced
    <3>0. Fits(call[r])
      BY DEF IInv, CallsOK
    <3>1. CASE /\ Drop({r})
               /\ call[r].op = "register" =>
                    \/ At(r, "insert") /\ Registered(call[r].user)
                    \/ At(r, "mail") /\ mailed' = mailed \cup {<<call[r].token, call[r].user>>}
      <4>1. At(r, "mail") => call[r].token \in Tokens
        BY <3>0 DEF Fits, At
      <4> QED BY <2>0, <3>1, <4>1, StillAnnounced DEF Drop, At, accounts, Idle
    <3>2. ASSUME NEW c, Move(r, c), c.pc # "insert", c.op = call[r].op,
                 c.op = "register" => c.user = call[r].user
          PROVE  Unannounced' \subseteq Unannounced
      BY <2>0, <3>2, StillAnnounced DEF Move, At, accounts
    <3>3. CASE Registers(r) /\ GoTo(r, "find")
      <4>1. call[r].op = "register" /\ call[r].pc = "insert"
        BY <3>0, <3>3 DEF Registers, At, Fits
      <4>2. call'[r].pc = "find" /\ call'[r].op = "register" /\ call'[r].user = call[r].user
        <5>1. PICK c \in Call : /\ call' = [call EXCEPT ![r] = c]
                               /\ c.pc = "find" /\ c.op = call[r].op /\ c.user = call[r].user
          BY <3>3, GoToCall
        <5> QED BY <2>0, <4>1, <5>1
      <4>3. \A q \in Requests \ {r} : call'[q] = call[q]
        BY <2>0, <3>3 DEF GoTo
      <4>4. /\ mailed' = mailed
            /\ \A u \in Users \ {call[r].user} : password'[u] = password[u]
        BY <2>0, <3>3 DEF Registers, SetPassword
      <4> QED BY <4>1, <4>2, <4>3, <4>4 DEF Unannounced, Registered, At
    <3>4. ASSUME NEW t \in Tokens, Mints(r, t),
                 call' = [call EXCEPT ![r].pc = "mail", ![r].token = t]
          PROVE  Unannounced' \subseteq Unannounced
      <4>1. call[r].pc = "mint" /\ UNCHANGED <<password, mailed>>
        BY <3>4 DEF Mints, At, accounts
      <4>2. call[r] \in Call
        BY <2>0
      <4>3. /\ call'[r] = [call[r] EXCEPT !.pc = "mail", !.token = t]
            /\ \A q \in Requests \ {r} : call'[q] = call[q]
        BY <2>0, <3>4
      <4>4. call'[r].pc = "mail" /\ call'[r].op = call[r].op /\ call'[r].user = call[r].user
        BY <4>2, <4>3 DEF Call
      <4> QED BY <4>1, <4>3, <4>4, StillAnnounced DEF At
    <3>5. CASE Redeems(r) /\ GoTo(r, "apply")
      <4>1. call[r].op # "register" /\ UNCHANGED <<password, mailed>>
        BY <3>0, <3>5 DEF Redeems, At, Fits, accounts
      <4>2. \A q \in Requests \ {r} : call'[q] = call[q]
        BY <2>0, <3>5 DEF GoTo
      <4> QED BY <4>1, <4>2, StillAnnounced DEF At
    <3>6. CASE Apply(r)
      <4>1. call[r].op # "register" /\ call[r].pc = "apply" /\ Founded(call[r])
        BY <3>0, <3>6 DEF Apply, At, Fits, IInv, CallsOK
      <4>2. (\A q \in Requests \ {r} : call'[q] = call[q]) /\ call'[r] = Idle /\ mailed' = mailed
        BY <2>0, <3>6 DEF Apply, End
      <4>3. \A u \in Users : Registered(u)' => Registered(u) \/ \E t \in Tokens : <<t, u>> \in mailed
        BY <3>6, <4>1, NewAccounts DEF Writes
      <4> QED BY <4>1, <4>2, <4>3 DEF Unannounced, At, Idle
    <3> QED BY <2>2, <3>1, <3>2, <3>3, <3>4, <3>5, <3>6, ServeShapes
  <2>3. ASSUME Tick \/ \E u \in Users : Logout(u) PROVE Unannounced' \subseteq Unannounced
    BY <2>3, TickShapes, StillAnnounced DEF At
  <2> QED BY <2>1, <2>2, <2>3 DEF HealthyNext
<1>2. IInv /\ [Next]_vars =>
        [\A u \in Unannounced' \ Unannounced :
           /\ ~HealthyNext
           /\ \/ Crash
              \/ \E r \in Requests :
                   Fault(r) /\ call[r].op = "register" /\ call[r].user = u]_vars
  BY <1>1, FaultAnnounces DEF Next
<1> QED BY <1>2, Invariance, PTL DEF Spec, RegisteringMails

-----------------------------------------------------------------------------
\* A token's life in terms of Redemption: it stays as it is or goes on.
Lives(t) ==
  \/ Ticket(t)' = Ticket(t)
  \/ R!Issue(t) \/ R!Claim(t) \/ R!Use(t) \/ R!Void(t)

\* Nothing becomes of a token if its row stays and the same request, if any,
\* holds it.
LEMMA Same ==
  ASSUME NEW t \in Tokens,
         HasRow(t)' <=> HasRow(t), token'[t].user = token[t].user,
         (token[t].age = "unborn")' <=> token[t].age = "unborn",
         t \in effective' <=> t \in effective,
         Holders(t)' = Holders(t),
         \A r \in Holders(t) : call'[r].user = call[r].user
  PROVE  Lives(t)
<1>1. {call'[r].user : r \in Holders(t)'} = {call[r].user : r \in Holders(t)}
  OBVIOUS
<1> QED BY <1>1 DEF Lives, Ticket

\* The four steps of Redemption, and what they are here.
LEMMA IssueLives ==
  ASSUME NEW t \in Tokens, token[t].age = "unborn", Holders(t) = {}, t \notin effective,
         NEW u \in Users, HasRow(t)', token'[t].user = u, Holders(t)' = {}
  PROVE  Lives(t)
<1>1. Ticket(t).state = "none"
  BY DEF Ticket, HasRow
<1>2. Ticket(t)' = [state |-> "issued", user |-> {u}, by |-> {}]
  BY DEF Ticket
<1> QED BY <1>1, <1>2 DEF Lives, R!Issue, R!Ticket

\* One request redeems it, for its user.
LEMMA ClaimLives ==
  ASSUME NEW t \in Tokens, HasRow(t), Holders(t) = {}, NEW r \in Requests,
         Holders(t)' = {r}, call'[r].user = token[t].user
  PROVE  Lives(t)
<1>1. Ticket(t).state = "issued" /\ Ticket(t).user = {token[t].user}
  BY DEF Ticket
<1>2. Ticket(t)' = [state |-> "claimed", user |-> {token[t].user}, by |-> {r}]
  BY DEF Ticket
<1> QED BY <1>1, <1>2 DEF Lives, R!Claim, R!Ticket

\* The request that holds it writes.
LEMMA UseLives ==
  ASSUME NEW t \in Tokens, Holders(t) # {}, Holders(t)' = {}, ~HasRow(t)', t \in effective'
  PROVE  Lives(t)
<1>1. Ticket(t).state = "claimed"
  BY DEF Ticket
<1>2. Ticket(t)' = [state |-> "used", user |-> {}, by |-> {}]
  BY DEF Ticket
<1> QED BY <1>1, <1>2 DEF Lives, R!Use, R!Over, R!Ticket

\* It is swept, or its holder fails.
LEMMA VoidLives ==
  ASSUME NEW t \in Tokens, Holders(t) # {} \/ HasRow(t), Holders(t)' = {}, ~HasRow(t)',
         t \notin effective', token'[t].age # "unborn"
  PROVE  Lives(t)
<1>1. Ticket(t).state \in {"issued", "claimed"}
  BY DEF Ticket
<1>2. Ticket(t)' = [state |-> "void", user |-> {}, by |-> {}]
  BY DEF Ticket
<1> QED BY <1>1, <1>2 DEF Lives, R!Void, R!Over, R!Ticket

\* Who holds what, by the invariant.
LEMMA HoldersAre ==
  ASSUME IInv, NEW t \in Tokens
  PROVE  /\ Holders(t) = {} \/ \E r \in Requests : Holders(t) = {r}
         /\ Holders(t) # {} => token[t].age = "redeemed" /\ t \notin effective
         /\ t \in effective => token[t].age = "redeemed"
         /\ t \in Tokens /\ t # NoToken
<1>1. t # NoToken
  BY NullAssumption
<1>2. Holders(t) # {} => token[t].age = "redeemed" /\ t \notin effective
  BY <1>1 DEF IInv, CallsOK, Founded, Holders, At
<1>3. ASSUME NEW r \in Holders(t) PROVE r \in Requests /\ Holders(t) = {r}
  BY <1>1 DEF IInv, HeldOnce, Holders, At
<1>4. t \in effective => token[t].age = "redeemed"
  BY DEF IInv, TokensOK
<1> QED BY <1>1, <1>2, <1>3, <1>4

\* A step that writes no token and neither takes nor ends a hold.
LEMMA NoHoldsChange ==
  ASSUME NEW t \in Tokens, UNCHANGED <<token, effective>>,
         \A r \in Requests : \/ call'[r] = call[r]
                             \/ r \notin Holders(t) /\ r \notin Holders(t)'
  PROVE  Lives(t)
<1>1. Holders(t)' = Holders(t) /\ \A r \in Holders(t) : call'[r] = call[r]
  BY DEF Holders, At
<1> QED BY <1>1, Same DEF HasRow

\* A request that ends makes the token it held void.
LEMMA DropLives ==
  ASSUME IInv, NEW D \in SUBSET Requests, Drop(D), NEW t \in Tokens
  PROVE  Lives(t)
<1>0. call \in [Requests -> Call] /\ UNCHANGED <<token, effective>>
  BY DEF IInv, TypeOK, Drop
<1>1. \A r \in Requests : call'[r] = IF r \in D THEN Idle ELSE call[r]
  BY <1>0 DEF Drop
<1>2. CASE Holders(t) \cap D = {}
  <2>1. \A r \in Requests : r \in D => r \notin Holders(t) /\ r \notin Holders(t)'
    BY <1>1, <1>2 DEF Holders, At, Idle
  <2> QED BY <1>0, <1>1, <2>1, NoHoldsChange
<1>3. CASE Holders(t) \cap D # {}
  <2>1. token[t].age = "redeemed" /\ t \notin effective /\ Holders(t) \subseteq D
    BY <1>3, HoldersAre
  <2>2. Holders(t)' = {}
    BY <1>1, <2>1 DEF Holders, At, Idle
  <2> QED BY <1>0, <1>3, <2>1, <2>2, VoidLives DEF HasRow
<1> QED BY <1>2, <1>3

\* A request that reads takes no token.
LEMMA MoveLives ==
  ASSUME IInv, NEW r \in Requests, NEW c, Move(r, c), ~At(r, "apply"), NEW t \in Tokens
  PROVE  Lives(t)
<1>1. /\ UNCHANGED <<token, effective>> /\ call'[r] = c
      /\ \A q \in Requests \ {r} : call'[q] = call[q]
  BY DEF IInv, TypeOK, Move
<1>2. r \notin Holders(t) /\ r \notin Holders(t)'
  BY <1>1, HoldersAre DEF Holders, At, Move
<1> QED BY <1>1, <1>2, NoHoldsChange

\* Minting issues a token, redeeming claims it, applying uses it.
LEMMA WritesLive ==
  ASSUME IInv, NEW r \in Requests, Writes(r), NEW t \in Tokens
  PROVE  Lives(t)
<1>0. /\ call \in [Requests -> Call] /\ token \in [Tokens -> Token]
      /\ Fits(call[r]) /\ Founded(call[r])
  BY DEF IInv, TypeOK, CallsOK
<1>1. CASE Registers(r)
  <2>1. call'[r].pc # "apply" /\ call[r].pc # "apply" /\ UNCHANGED <<token, effective>>
    BY <1>0, <1>1, GoToCall DEF Registers, End, At, Idle
  <2>2. \A q \in Requests \ {r} : call'[q] = call[q]
    BY <1>0, <1>1 DEF Registers, End, GoTo
  <2> QED BY <2>1, <2>2, NoHoldsChange DEF Holders, At
<1>2. ASSUME NEW s \in Tokens, Mints(r, s) PROVE Lives(t)
  <2>1. /\ call[r].pc = "mint" /\ token[s].age = "unborn" /\ effective' = effective
        /\ call[r].user \in Users
    BY <1>0, <1>2 DEF Mints, At, Unborn, Fits
  <2>2. call'[r].pc # "apply" /\ \A q \in Requests \ {r} : call'[q] = call[q]
    BY <1>0, <1>2 DEF Mints, End, Idle, Call
  <2>3. /\ token'[s].user = call[r].user /\ token'[s].age = "live"
        /\ t # s => token'[t] = token[t]
    BY <1>0, <1>2 DEF Mints, Born
  <2>4. Holders(t)' = Holders(t) /\ \A q \in Holders(t) : call'[q] = call[q]
    BY <2>1, <2>2 DEF Holders, At
  <2>5. CASE t = s
    BY <2>1, <2>3, <2>4, <2>5, HoldersAre, IssueLives DEF HasRow
  <2>6. CASE t # s
    BY <2>1, <2>3, <2>4, <2>6, Same DEF HasRow
  <2> QED BY <2>5, <2>6
<1>3. CASE Redeems(r)
  <2> DEFINE s == call[r].token
  <2>1. /\ call[r].pc = "redeem" /\ HasRow(s) /\ effective' = effective
        /\ s \in Tokens /\ <<s, call[r].user>> \in mailed /\ call[r].user \in Users
    BY <1>0, <1>3 DEF Redeems, At, Fits, Founded
  <2>2. token[s].user = call[r].user
    BY <2>1 DEF IInv, TokensOK, For
  <2>3. token'[s] = NoRow("redeemed") /\ (t # s => token'[t] = token[t])
    BY <1>0, <1>3, <2>1 DEF Redeems, Gone
  <2>4. \A q \in Requests \ {r} : call'[q] = call[q]
    BY <1>0, <1>3 DEF Redeems, GoTo, End
  <2>5. \/ call'[r] = Idle
        \/ call'[r].pc = "apply" /\ call'[r].token = s /\ call'[r].user = call[r].user
    <3>1. CASE End(r)
      BY <1>0, <3>1 DEF End
    <3>2. CASE GoTo(r, "apply")
      <4>1. PICK c \in Call : /\ call' = [call EXCEPT ![r] = c]
                             /\ c.pc = "apply" /\ c.user = call[r].user /\ c.token = call[r].token
        BY <3>2, GoToCall
      <4> QED BY <1>0, <4>1
    <3> QED BY <1>3, <3>1, <3>2 DEF Redeems
  <2>6. CASE t # s
    <3>1. Holders(t)' = Holders(t) /\ \A q \in Holders(t) : call'[q] = call[q]
      BY <2>1, <2>4, <2>5, <2>6 DEF Holders, At, Idle
    <3> QED BY <2>1, <2>3, <2>6, <3>1, Same DEF HasRow
  <2>7. CASE t = s
    <3>1. Holders(t) = {} /\ t \notin effective
      BY <2>1, <2>7, HoldersAre DEF HasRow
    <3>2. CASE call'[r] = Idle
      <4>1. Holders(t)' = {}
        BY <2>4, <3>1, <3>2 DEF Holders, At, Idle
      <4> QED BY <2>1, <2>3, <2>7, <3>1, <4>1, VoidLives DEF HasRow, NoRow
    <3>3. CASE call'[r].pc = "apply" /\ call'[r].token = s /\ call'[r].user = call[r].user
      <4>1. Holders(t)' = {r}
        BY <2>4, <2>7, <3>1, <3>3 DEF Holders, At
      <4> QED BY <2>1, <2>2, <2>7, <3>1, <3>3, <4>1, ClaimLives
    <3> QED BY <2>5, <3>2, <3>3
  <2> QED BY <2>6, <2>7
<1>4. CASE Apply(r)
  <2>1. /\ call[r].pc = "apply" /\ token' = token /\ call'[r] = Idle
        /\ effective' = effective \cup ({call[r].token} \ {NoToken})
        /\ \A q \in Requests \ {r} : call'[q] = call[q]
    BY <1>0, <1>4 DEF Apply, At, End
  <2>2. CASE t = call[r].token
    <3>1. Holders(t) = {r} /\ token[t].age = "redeemed"
      BY <2>1, <2>2, HoldersAre DEF Holders, At
    <3>2. Holders(t)' = {}
      BY <2>1, <3>1 DEF Holders, At, Idle
    <3>3. t \in effective'
      BY <2>1, <2>2, HoldersAre
    <3> QED BY <2>1, <3>1, <3>2, <3>3, UseLives DEF HasRow
  <2>3. CASE t # call[r].token
    <3>1. Holders(t)' = Holders(t) /\ \A q \in Holders(t) : call'[q] = call[q]
      BY <2>1, <2>3 DEF Holders, At, Idle
    <3> QED BY <2>1, <2>3, <3>1, Same DEF HasRow
  <2> QED BY <2>2, <2>3
<1> QED BY <1>1, <1>2, <1>3, <1>4 DEF Writes

\* A token that is swept is void.
LEMMA TickLives ==
  ASSUME IInv, Tick \/ \E u \in Users : Logout(u), NEW t \in Tokens
  PROVE  Lives(t)
<1>1. /\ UNCHANGED <<effective, call>>
      /\ \/ token'[t] = token[t]
         \/ /\ token[t].age \in {"live", "edge"} /\ token'[t].user = token[t].user
            /\ token'[t].age \in {"edge", "expired"}
         \/ token[t].age = "expired" /\ token'[t].age = "swept"
  BY TickShapes
<1>2. Holders(t)' = Holders(t)
  BY <1>1 DEF Holders, At
<1>3. CASE token[t].age = "expired" /\ token'[t].age = "swept"
  BY <1>1, <1>2, <1>3, HoldersAre, VoidLives DEF HasRow
<1> QED BY <1>1, <1>2, <1>3, Same DEF HasRow

\* Every token lives as Redemption says, whatever fails: it is issued once, one
\* request claims it, for the account it was issued for, and what became of it
\* is final.
THEOREM TokensLiveAsRedemption == Spec => TokensRefine
<1>1. Init => R!Init
  BY DEF Init, R!Init, R!Over, R!Ticket, Ticket, Holders, At, Idle, HasRow, NoRow
<1>2. IInv /\ [Next]_vars => \A t \in Tokens : Lives(t)
  <2> SUFFICES ASSUME IInv, [Next]_vars, NEW t \in Tokens PROVE Lives(t)
    OBVIOUS
  <2>1. ASSUME NEW r \in Requests, Start(r) PROVE Lives(t)
    <3>1. PICK c : Move(r, c) /\ ~At(r, "apply")
      BY <2>1, StartMoves DEF At
    <3> QED BY <3>1, MoveLives
  <2>2. ASSUME NEW r \in Requests, Serve(r) PROVE Lives(t)
    BY <2>2, ServeShapes, DropLives, MoveLives, WritesLive DEF Writes
  <2>3. ASSUME NEW r \in Requests, Fault(r) PROVE Lives(t)
    BY <2>3, FaultShapes, DropLives, WritesLive
  <2>4. CASE Crash
    BY <2>4, CrashDrops, DropLives
  <2>5. CASE UNCHANGED vars
    BY <2>5, NoHoldsChange DEF vars
  <2> QED BY <2>1, <2>2, <2>3, <2>4, <2>5, TickLives DEF Next, HealthyNext
<1>3. (\A t \in Tokens : Lives(t)) => R!Next
  BY DEF Lives, R!Next
<1>4. IInv /\ [Next]_vars => [R!Next]_([t \in Tokens |-> Ticket(t)])
  BY <1>2, <1>3
<1> QED BY <1>1, <1>4, Invariance, PTL DEF Spec, TokensRefine, R!Spec
=============================================================================

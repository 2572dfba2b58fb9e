------------------------------ MODULE Accounts ------------------------------
(***************************************************************************)
(* AuthService, VerificationService and UserService behind AuthController: *)
(* accounts, the sessions of logged-in users and the tokens mailed to      *)
(* verify an address or to reset a password.                               *)
(*                                                                         *)
(* Every await is a step: requests interleave between their queries, and   *)
(* between a query and the write that relies on what it read.  Hashes are  *)
(* as good as the passwords they stand for.  Tokens age and a cron sweeps  *)
(* the expired ones.                                                       *)
(***************************************************************************)
EXTENDS Naturals, FiniteSets

CONSTANTS
  Requests,     \* requests that may be in flight together
  Users,        \* the addresses people register with
  Passwords,    \* NoPassword is one that no account ever has
  Tokens,       \* the tokens randomUUID can return (bounds a run)
  NoUser, NoPassword, NoToken

ASSUME NullAssumption ==
  NoUser \notin Users /\ NoPassword \notin Passwords /\ NoToken \notin Tokens

VARIABLES
  password,     \* of every account; NoPassword where there is none
  verified,     \* the accounts with emailVerified
  session,      \* the accounts somebody is logged in with
  token,        \* every token: its row and what became of it
  mailed,       \* <<t, u>>: token t was mailed to u
  effective,    \* the tokens whose redemption reached the account
  had,          \* the passwords an account ever had (for the properties)
  call          \* the state of every request in flight

accounts == <<password, verified, had>>
vars == <<accounts, session, token, mailed, effective, call>>

Types == {"EMAIL_VERIFICATION", "PASSWORD_RESET"}

\* "edge" is the instant now = expiresAt; a swept or redeemed row is gone.
Token == [user : Users \cup {NoUser}, type : Types,
          age : {"unborn", "live", "edge", "expired", "redeemed", "swept"}]

Call == [op    : {"none", "register", "login", "sendToken", "forgot",
                  "verify", "reset", "change"},
         pc    : {"idle", "insert", "load", "find", "mint", "mail",
                  "lookup", "redeem", "compare", "apply"},
         user  : Users \cup {NoUser},
         given : Passwords \cup {NoPassword},
         new   : Passwords \cup {NoPassword},
         token : Tokens \cup {NoToken}]

Idle == [op |-> "none", pc |-> "idle", user |-> NoUser,
         given |-> NoPassword, new |-> NoPassword, token |-> NoToken]

\* A token without a row.
NoRow(age) == [user |-> NoUser, type |-> "EMAIL_VERIFICATION", age |-> age]

TypeOK ==
  /\ password \in [Users -> Passwords \cup {NoPassword}]
  /\ verified \subseteq Users /\ session \subseteq Users
  /\ token \in [Tokens -> Token]
  /\ mailed \subseteq Tokens \X Users
  /\ effective \subseteq Tokens
  /\ had \in [Users -> SUBSET Passwords]
  /\ call \in [Requests -> Call]
  /\ \A r \in Requests : call[r].pc = "idle" <=> call[r] = Idle

Init ==
  /\ password = [u \in Users |-> NoPassword]
  /\ verified = {} /\ session = {} /\ mailed = {} /\ effective = {}
  /\ token = [t \in Tokens |-> NoRow("unborn")]
  /\ had = [u \in Users |-> {}]
  /\ call = [r \in Requests |-> Idle]

Registered(u) == password[u] # NoPassword

At(r, pc) == call[r].pc = pc

GoTo(r, pc) == call' = [call EXCEPT ![r].pc = pc]

\* Mutant: the request is over but what it carried stays.
End_KeepsRequest(r) == call' = [call EXCEPT ![r].pc = "idle"]

\* The response is sent, or the exception reaches the filter.
End(r) == call' = [call EXCEPT ![r] = Idle]

-----------------------------------------------------------------------------
(* AuthController *)

Begin(r, c) ==
  /\ At(r, "idle")
  /\ call' = [call EXCEPT ![r] = c]
  /\ UNCHANGED <<accounts, session, token, mailed, effective>>

Unborn == {t \in Tokens : token[t].age = "unborn"}

\* Bound: a request that may mint starts only if all requests could.
TokensLast == Cardinality(Unborn) >= Cardinality(Requests)

Register(r, u, p) ==
  TokensLast /\ Begin(r, [Idle EXCEPT !.op = "register", !.pc = "insert", !.user = u, !.new = p])

\* Bound: nobody logs in while somebody is logged in.
Login(r, u, p) ==
  session = {} /\ Begin(r, [Idle EXCEPT !.op = "login", !.pc = "compare", !.user = u, !.given = p])

SendVerificationToken(r, u) ==
  /\ TokensLast /\ u \in session
  /\ Begin(r, [Idle EXCEPT !.op = "sendToken", !.pc = "load", !.user = u])

ForgotPassword(r, u) ==
  TokensLast /\ Begin(r, [Idle EXCEPT !.op = "forgot", !.pc = "load", !.user = u])

Verify(r, t) ==
  Begin(r, [Idle EXCEPT !.op = "verify", !.pc = "lookup", !.token = t])

ResetPassword(r, t, p) ==
  Begin(r, [Idle EXCEPT !.op = "reset", !.pc = "lookup", !.token = t, !.new = p])

\* Bound: nobody changes back to a password they had; resetting may.
ChangePassword(r, u, old, new) ==
  /\ u \in session /\ old # new /\ new \notin had[u]
  /\ Begin(r, [Idle EXCEPT !.op = "change", !.pc = "compare", !.user = u,
                           !.given = old, !.new = new])

\* session.destroy, or the session's 24 hours are over.
Logout(u) ==
  /\ session' = session \ {u}
  /\ UNCHANGED <<accounts, token, mailed, effective, call>>

-----------------------------------------------------------------------------
(* UserService and VerificationService, one query each. *)

SetPassword(u, p) ==
  /\ password' = [password EXCEPT ![u] = p]
  /\ had' = [had EXCEPT ![u] = @ \cup {p}]
  /\ UNCHANGED verified

\* Mutant: registering ends without asking for the verification mail.
Insert_NoMail(r) ==
  /\ At(r, "insert")
  /\ IF Registered(call[r].user)
       THEN UNCHANGED accounts
       ELSE SetPassword(call[r].user, call[r].new)
  /\ End(r)
  /\ UNCHANGED <<session, token, mailed, effective>>

\* The unique email and nickName refuse a second account: P2002.
Insert(r) ==
  /\ At(r, "insert")
  /\ IF Registered(call[r].user)
       THEN End(r) /\ UNCHANGED accounts
       ELSE SetPassword(call[r].user, call[r].new) /\ GoTo(r, "find")
  /\ UNCHANGED <<session, token, mailed, effective>>

Load(r) ==
  /\ At(r, "load")
  /\ LET u == call[r].user
     IN  IF Registered(u) /\ (call[r].op = "sendToken" => u \notin verified)
           THEN GoTo(r, "find")
           ELSE End(r)
  /\ UNCHANGED <<accounts, session, token, mailed, effective>>

TypeOf(r) == IF call[r].op = "forgot" THEN "PASSWORD_RESET" ELSE "EMAIL_VERIFICATION"

LiveTokens(u, type) ==
  {t \in Tokens : token[t] = [user |-> u, type |-> type, age |-> "live"]}

\* Mutant: findFirst forgets the user.
Find_AnyUser(r) ==
  /\ At(r, "find")
  /\ LET live == UNION {LiveTokens(u, TypeOf(r)) : u \in Users}
     IN  \/ live = {} /\ GoTo(r, "mint")
         \/ \E t \in live : call' = [call EXCEPT ![r].pc = "mail", ![r].token = t]
  /\ UNCHANGED <<accounts, session, token, mailed, effective>>

\* getOrCreateToken, the findFirst.
Find(r) ==
  /\ At(r, "find")
  /\ LET live == LiveTokens(call[r].user, TypeOf(r))
     IN  \/ live = {} /\ GoTo(r, "mint")
         \/ \E t \in live : call' = [call EXCEPT ![r].pc = "mail", ![r].token = t]
  /\ UNCHANGED <<accounts, session, token, mailed, effective>>

Born(r, t) ==
  token' = [token EXCEPT ![t] =
              [user |-> call[r].user, type |-> TypeOf(r), age |-> "live"]]

\* getOrCreateToken, the create.
Mint(r) ==
  /\ At(r, "mint")
  /\ \E t \in Unborn :
       Born(r, t) /\ call' = [call EXCEPT ![r].pc = "mail", ![r].token = t]
  /\ UNCHANGED <<accounts, session, mailed, effective>>

Deliver(r) == mailed' = mailed \cup {<<call[r].token, call[r].user>>}

Mail(r) ==
  /\ At(r, "mail")
  /\ Deliver(r)
  /\ End(r)
  /\ UNCHANGED <<accounts, session, token, effective>>

\* Mutant: a token stays valid until it expires.
Lookup_KeepsToken(r) ==
  /\ At(r, "lookup")
  /\ LET row == token[call[r].token]
     IN  IF row.age \in {"live", "edge"}
           THEN call' = [call EXCEPT ![r].pc = "apply", ![r].user = row.user]
           ELSE End(r)
  /\ UNCHANGED <<accounts, session, token, mailed, effective>>

\* verifyToken, findUnique.  The type of the token is not looked at.
Lookup(r) ==
  /\ At(r, "lookup")
  /\ LET row == token[call[r].token]
     IN  IF row.age \in {"live", "edge"}
           THEN call' = [call EXCEPT ![r].pc = "redeem", ![r].user = row.user]
           ELSE End(r)
  /\ UNCHANGED <<accounts, session, token, mailed, effective>>

HasRow(t) == token[t].age \in {"live", "edge", "expired"}

Gone(t) == token' = [token EXCEPT ![t] = NoRow("redeemed")]

\* Mutants: deleteMany does not mind a missing row; the row is deleted
\* before its expiry is compared.
Redeem_DeleteMany(r) ==
  /\ At(r, "redeem")
  /\ Gone(call[r].token)
  /\ GoTo(r, "apply")
  /\ UNCHANGED <<accounts, session, mailed, effective>>

Redeem_ThenChecksExpiry(r) ==
  /\ At(r, "redeem")
  /\ LET t == call[r].token
     IN  IF HasRow(t)
           THEN Gone(t) /\ IF token[t].age = "expired" THEN End(r) ELSE GoTo(r, "apply")
           ELSE End(r) /\ UNCHANGED token
  /\ UNCHANGED <<accounts, session, mailed, effective>>

\* verifyToken, delete: P2025 if the row went in between.
Redeem(r) ==
  /\ At(r, "redeem")
  /\ IF HasRow(call[r].token)
       THEN Gone(call[r].token) /\ GoTo(r, "apply")
       ELSE End(r) /\ UNCHANGED token
  /\ UNCHANGED <<accounts, session, mailed, effective>>

\* Mutant: any password will do.
Compare_Nothing(r) ==
  /\ At(r, "compare")
  /\ IF Registered(call[r].user) THEN GoTo(r, "apply") ELSE End(r)
  /\ UNCHANGED <<accounts, session, token, mailed, effective>>

\* login and changePassword compare with the hash they read here.
Compare(r) ==
  /\ At(r, "compare")
  /\ IF Registered(call[r].user) /\ password[call[r].user] = call[r].given
       THEN GoTo(r, "apply")
       ELSE End(r)
  /\ UNCHANGED <<accounts, session, token, mailed, effective>>

\* The write a request came for: the session, emailVerified or passwordHash.
Effect(r) ==
  LET c == call[r]
  IN  \/ c.op = "login" /\ session' = session \cup {c.user} /\ UNCHANGED accounts
      \/ /\ c.op = "verify"
         /\ verified' = verified \cup {c.user}
         /\ UNCHANGED <<password, had, session>>
      \/ c.op \in {"reset", "change"} /\ SetPassword(c.user, c.new) /\ UNCHANGED session

Apply(r) ==
  /\ At(r, "apply")
  /\ Effect(r)
  /\ effective' = effective \cup ({call[r].token} \ {NoToken})
  /\ End(r)
  /\ UNCHANGED <<token, mailed>>

-----------------------------------------------------------------------------
(* The clock, the cron, and what fails. *)

Age(t) ==
  /\ token[t].age \in {"live", "edge"}
  /\ token' = [token EXCEPT ![t].age = IF @ = "live" THEN "edge" ELSE "expired"]
  /\ UNCHANGED <<accounts, session, mailed, effective, call>>

RemoveExpiredTokens ==
  /\ token' = [t \in Tokens |->
                 IF token[t].age = "expired" THEN NoRow("swept") ELSE token[t]]
  /\ UNCHANGED <<accounts, session, mailed, effective, call>>

\* A query rejects before it took effect.
QueryFails(r) ==
  /\ ~At(r, "idle") /\ ~At(r, "mail")
  /\ End(r)
  /\ UNCHANGED <<accounts, session, token, mailed, effective>>

\* A write takes effect and its answer is lost.
AnswerLost(r) ==
  /\ \/ /\ At(r, "insert") /\ ~Registered(call[r].user)
        /\ SetPassword(call[r].user, call[r].new)
        /\ UNCHANGED <<session, token, effective>>
     \/ /\ At(r, "mint")
        /\ \E t \in Unborn : Born(r, t)
        /\ UNCHANGED <<accounts, session, effective>>
     \/ /\ At(r, "redeem") /\ HasRow(call[r].token)
        /\ Gone(call[r].token)
        /\ UNCHANGED <<accounts, session, effective>>
     \/ /\ At(r, "apply") /\ call[r].op # "login"
        /\ Effect(r)
        /\ effective' = effective \cup ({call[r].token} \ {NoToken})
        /\ UNCHANGED token
  /\ End(r)
  /\ UNCHANGED mailed

\* Sessions are rows of the database; the requests are not.
Crash ==
  /\ \E r \in Requests : ~At(r, "idle")
  /\ call' = [r \in Requests |-> Idle]
  /\ UNCHANGED <<accounts, session, token, mailed, effective>>

\* sendMail throws in the callback it gave the pooled transporter, which
\* catches and logs that: nobody settles the promise the request awaits, which
\* is never answered and does nothing any more.
MailFails(r) ==
  /\ At(r, "mail")
  /\ Deliver(r) \/ UNCHANGED mailed
  /\ End(r)
  /\ UNCHANGED <<accounts, session, token, effective>>

Fault(r) == QueryFails(r) \/ AnswerLost(r) \/ MailFails(r)

-----------------------------------------------------------------------------
\* A token can be presented once it was mailed; unknown ones are refused as
\* swept ones are.  A guess may be right for some account or for none.
Start(r) ==
  \/ \E u \in Users :
       \/ SendVerificationToken(r, u) \/ ForgotPassword(r, u)
       \/ \E p \in Passwords :
            \/ Register(r, u, p) \/ Login(r, u, p)
            \/ \E old \in Passwords \cup {NoPassword} : ChangePassword(r, u, old, p)
  \/ \E m \in mailed : Verify(r, m[1]) \/ \E p \in Passwords : ResetPassword(r, m[1], p)

Serve(r) ==
  \/ Insert(r) \/ Load(r) \/ Find(r) \/ Mint(r) \/ Mail(r)
  \/ Lookup(r) \/ Redeem(r) \/ Compare(r) \/ Apply(r)

Tick == (\E t \in Tokens : Age(t)) \/ RemoveExpiredTokens

HealthyNext ==
  \/ \E r \in Requests : Start(r) \/ Serve(r)
  \/ \E u \in Users : Logout(u)
  \/ Tick

Next == HealthyNext \/ Crash \/ \E r \in Requests : Fault(r)

Spec == Init /\ [][Next]_vars

-----------------------------------------------------------------------------
\* The requests verifyToken has let through with t.
Holders(t) == {r \in Requests : At(r, "apply") /\ call[r].token = t}

\* A token reaches an account at most once: of the requests that present it
\* at the same time verifyToken's delete lets one through.
RedeemedOnce ==
  \A t \in Tokens :
    /\ Cardinality(Holders(t)) <= 1
    /\ t \in effective => Holders(t) = {}

\* What the rows and the requests tell of a token.
Ticket(t) ==
  LET by == Holders(t)
      Over(state) == [state |-> state, user |-> {}, by |-> {}]
  IN  IF by # {}
        THEN [state |-> "claimed", user |-> {call[r].user : r \in by}, by |-> by]
      ELSE IF HasRow(t)
        THEN [state |-> "issued", user |-> {token[t].user}, by |-> {}]
      ELSE Over(IF t \in effective THEN "used"
                ELSE IF token[t].age = "unborn" THEN "none" ELSE "void")

R == INSTANCE Redemption WITH ticket <- [t \in Tokens |-> Ticket(t)]

\* Every token lives as Redemption says: it is one request's to use, for the
\* account it was issued for, and what becomes of it is final, though lookup,
\* delete and effect are three queries and its mail may come late.
TokensRefine == R!Spec

\* An address is verified only after a token mailed to it was redeemed.
VerifiedByMail ==
  \A u \in verified : \E t \in effective : <<t, u>> \in mailed

\* An account's password is replaced only through a token mailed to its
\* address, or by somebody who gave a password the account has had.
PasswordProven ==
  [][\A u \in Users :
       Registered(u) /\ password'[u] # password[u] =>
         \E r \in Requests :
           /\ At(r, "apply") /\ call[r].user = u /\ call[r].new = password'[u]
           /\ <<call[r].token, u>> \in mailed \/ call[r].given \in had[u]]_vars

\* The tokens that are used up without having done anything.
Wasted ==
  {t \in Tokens : token[t].age = "redeemed" /\ t \notin effective /\ Holders(t) = {}}

\* Redeeming a token and the write it is for are two queries: only if its own
\* request fails between them, or the process ends, is a token used up for
\* nothing, never by what other requests do or how they fail.
WasteNeedsFailure ==
  [][\A t \in Wasted' \ Wasted :
       /\ ~HealthyNext
       /\ Crash \/ \E r \in Requests : Fault(r) /\ call[r].token = t]_vars

\* getOrCreateToken hands out the live token there is, so nobody has two of
\* one type (verification.service.spec.ts, 'reuses existing token').
OneLiveToken ==
  \A u \in Users, type \in Types : Cardinality(LiveTokens(u, type)) <= 1

\* The accounts nobody was mailed a token for, nor any registration still will.
Unannounced ==
  {u \in Users : /\ Registered(u) /\ \A t \in Tokens : <<t, u>> \notin mailed
                 /\ \A r \in Requests : ~(call[r].op = "register" /\ call[r].user = u
                                            /\ ~At(r, "insert"))}

\* register swallows whatever goes wrong with the verification mail.  Still only
\* a failure of the registration itself, or the end of the process, leaves an
\* account without a mailed token: not that others find, redeem or sweep the
\* token meanwhile, nor that other requests fail.
RegisteringMails ==
  [][\A u \in Unannounced' \ Unannounced :
       /\ ~HealthyNext
       /\ \/ Crash
          \/ \E r \in Requests :
               Fault(r) /\ call[r].op = "register" /\ call[r].user = u]_vars
=============================================================================

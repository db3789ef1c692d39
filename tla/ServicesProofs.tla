----------------------------- MODULE ServicesProofs -----------------------------
(* The services beside the payout, for any constants: what each of them promises *)
(* is proved of its own specification; a service shares no state with the others. *)
EXTENDS MCServices, MoneyProofs

-----------------------------------------------------------------------------
(* Nonces and callbacks. What a nonce has bought is what its row says, a session *)
(* that is being opened holds the row of a nonce nobody has used, and what a     *)
(* registration writes is the wallet its nonce was issued for. An account a      *)
(* callback refers is one it created itself.                                     *)

NonceRow == [wallet : Wallet \cup {Nil}, purpose : {"signin", "payout_address", Nil},
             used : BOOLEAN, stands : BOOLEAN]
NonceCall == [pc : {"idle", "session", "consume", "holder", "insert"}, user : User \cup {Nil},
              nonce : Nonce \cup {Nil}, seen : User \cup Wallet \cup {Nil}]
Presenting == {"consume", "holder", "insert"}

NonceTypes ==
  /\ nonce \in [Nonce -> NonceRow] /\ nonceCall \in [Caller -> NonceCall]
  /\ walletUser \in [Wallet -> User \cup {Nil}] /\ payoutAddress \in [User -> Wallet \cup {Nil}]
  /\ spent \in [Nonce -> Seq({"signin", "payout_address", Nil})]

Issued(n) == nonce[n].wallet \in Wallet /\ nonce[n].purpose \in {"signin", "payout_address"}

RowsTell ==
  \A n \in Nonce : /\ spent[n] = IF nonce[n].used THEN <<nonce[n].purpose>> ELSE <<>>
                   /\ nonce[n].stands => Issued(n)

CallsHold ==
  \A k \in Caller :
    /\ nonceCall[k].pc = "session" => /\ nonceCall[k].nonce \in Nonce /\ Issued(nonceCall[k].nonce)
                                      /\ ~nonce[nonceCall[k].nonce].used
                                      /\ nonce[nonceCall[k].nonce].purpose = "signin"
    /\ nonceCall[k].pc \in Presenting => /\ nonceCall[k].nonce \in Nonce /\ Issued(nonceCall[k].nonce)
                                         /\ nonceCall[k].user \in User
                                         /\ nonce[nonceCall[k].nonce].purpose = "payout_address"

OneSession ==
  \A k, l \in Caller : (nonceCall[k].pc = "session" /\ nonceCall[l].pc = "session"
                        /\ nonceCall[k].nonce = nonceCall[l].nonce) => k = l

NonceInv == NonceTypes /\ RowsTell /\ CallsHold /\ OneSession

LEMMA NoncesBegin == SignInInit => NonceInv
<1> SUFFICES ASSUME SignInInit PROVE NonceInv
  OBVIOUS
<1>1. NoNonce \in NonceRow /\ ~NoNonce.used /\ ~NoNonce.stands
  BY DEF NoNonce, NonceRow
<1>2. NoNonceCall \in NonceCall /\ NoNonceCall.pc = "idle"
  BY DEF NoNonceCall, NonceCall
<1>3. NonceTypes
  BY <1>1, <1>2 DEF SignInInit, NonceTypes
<1>4. RowsTell /\ CallsHold /\ OneSession
  BY <1>1, <1>2 DEF SignInInit, RowsTell, CallsHold, OneSession, Presenting
<1> QED
  BY <1>3, <1>4 DEF NonceInv

\* A call that ends, or goes on with the nonce it has.
LEMMA CallGoesOn ==
  ASSUME NonceInv, NEW k \in Caller, NEW c \in NonceCall, UNCHANGED <<nonce, spent>>,
         walletUser' \in [Wallet -> User \cup {Nil}], payoutAddress' \in [User -> Wallet \cup {Nil}],
         nonceCall' = [nonceCall EXCEPT ![k] = c],
         \/ c.pc = "idle"
         \/ /\ c.pc \in Presenting /\ c.nonce \in Nonce /\ Issued(c.nonce) /\ c.user \in User
            /\ nonce[c.nonce].purpose = "payout_address"
         \/ /\ c.pc = "session" /\ c.nonce \in Nonce /\ Issued(c.nonce) /\ ~nonce[c.nonce].used
            /\ nonce[c.nonce].purpose = "signin"
            /\ \A l \in Caller : ~(nonceCall[l].pc = "session" /\ nonceCall[l].nonce = c.nonce)
  PROVE  NonceInv'
<1> USE DEF NonceInv
<1>1. /\ nonceCall'[k] = c /\ \A l \in Caller \ {k} : nonceCall'[l] = nonceCall[l]
      /\ nonceCall' \in [Caller -> NonceCall]
  BY DEF NonceTypes
<1>2. NonceTypes' /\ RowsTell'
  BY <1>1 DEF NonceTypes, RowsTell, Issued
<1>3. CallsHold'
  BY <1>1 DEF CallsHold, Issued, Presenting
<1>4. OneSession'
  BY <1>1 DEF OneSession, Presenting
<1> QED
  BY <1>2, <1>3, <1>4

\* The step that uses a nonce: nobody else is opening a session with it.
LEMMA NonceIsUsed ==
  ASSUME NonceInv, NEW k \in Caller, NEW c \in NonceCall, NEW n \in Nonce, NEW p \in {"signin", "payout_address"},
         n = nonceCall[k].nonce, ~nonce[n].used, nonce[n].purpose = p, Issued(n),
         nonce' = [nonce EXCEPT ![n].used = TRUE], spent' = [spent EXCEPT ![n] = Append(spent[n], p)],
         walletUser' \in [Wallet -> User \cup {Nil}], UNCHANGED payoutAddress,
         nonceCall' = [nonceCall EXCEPT ![k] = c],
         \/ c.pc = "idle" /\ p = "signin" /\ nonceCall[k].pc = "session"
         \/ c.pc = "holder" /\ c.nonce = n /\ c.user \in User /\ p = "payout_address"
  PROVE  NonceInv'
<1> USE DEF NonceInv
<1>1. /\ nonceCall'[k] = c /\ \A l \in Caller \ {k} : nonceCall'[l] = nonceCall[l]
      /\ nonceCall' \in [Caller -> NonceCall]
  BY DEF NonceTypes
<1>2. /\ nonce'[n].used /\ nonce'[n].purpose = p /\ nonce'[n].wallet = nonce[n].wallet
      /\ nonce'[n].stands = nonce[n].stands
      /\ \A m \in Nonce \ {n} : nonce'[m] = nonce[m]
      /\ nonce' \in [Nonce -> NonceRow]
  <2> DEFINE r == [nonce[n] EXCEPT !.used = TRUE]
  <2>1. nonce \in [Nonce -> NonceRow] /\ nonce[n] \in NonceRow
    BY DEF NonceTypes
  <2>2. nonce' = [nonce EXCEPT ![n] = r]
    BY <2>1
  <2>3. r \in NonceRow /\ r.used = TRUE /\ r.purpose = p /\ r.wallet = nonce[n].wallet /\ r.stands = nonce[n].stands
    BY <2>1 DEF NonceRow
  <2> HIDE DEF r
  <2> QED
    BY <2>1, <2>2, <2>3
<1>3. spent[n] = <<>>
  BY DEF RowsTell
<1>4. /\ spent'[n] = <<p>> /\ \A m \in Nonce \ {n} : spent'[m] = spent[m]
      /\ spent' \in [Nonce -> Seq({"signin", "payout_address", Nil})]
  BY <1>3 DEF NonceTypes
<1>5. NonceTypes'
  BY <1>1, <1>2, <1>4 DEF NonceTypes
<1>6. \A m \in Nonce : Issued(m) => Issued(m)'
  BY <1>2 DEF Issued
<1>7. RowsTell'
  BY <1>2, <1>4, <1>6 DEF RowsTell
<1>8. \A l \in Caller \ {k} : nonceCall[l].pc = "session" => nonceCall[l].nonce # n
  BY DEF CallsHold, OneSession
<1>9. CallsHold'
  BY <1>1, <1>2, <1>6, <1>8 DEF CallsHold, Presenting
<1>10. OneSession'
  BY <1>1, <1>8 DEF OneSession
<1> QED
  BY <1>5, <1>7, <1>9, <1>10

\* What happens to a nonce nobody holds: it is issued, or stands no more.
LEMMA NonceChanges ==
  ASSUME NonceInv, NEW n \in Nonce, NEW r \in NonceRow,
         nonce' = [nonce EXCEPT ![n] = r], UNCHANGED <<walletUser, payoutAddress, nonceCall, spent>>,
         \/ /\ nonce[n] = NoNonce /\ r.wallet \in Wallet /\ r.purpose \in {"signin", "payout_address"} /\ r.used = FALSE
         \/ /\ ~r.stands /\ r.used = nonce[n].used /\ r.wallet = nonce[n].wallet /\ r.purpose = nonce[n].purpose
  PROVE  NonceInv'
<1> USE DEF NonceInv
<1>1. /\ nonce'[n] = r /\ \A m \in Nonce \ {n} : nonce'[m] = nonce[m] /\ nonce' \in [Nonce -> NonceRow]
  BY DEF NonceTypes
<1>2. NonceTypes'
  BY <1>1 DEF NonceTypes
<1>3. NoNonce.wallet \notin Wallet /\ NoNonce.used = FALSE
  BY SignInAssumption DEF NoNonce
<1>4. \A m \in Nonce : Issued(m) => Issued(m)' /\ nonce'[m].used = nonce[m].used /\ nonce'[m].purpose = nonce[m].purpose
  BY <1>1, <1>3 DEF Issued
<1>5. RowsTell'
  <2> SUFFICES ASSUME NEW m \in Nonce
               PROVE  /\ spent[m] = IF nonce'[m].used THEN <<nonce'[m].purpose>> ELSE <<>>
                      /\ nonce'[m].stands => Issued(m)'
    BY DEF RowsTell
  <2>1. /\ spent[m] = IF nonce[m].used THEN <<nonce[m].purpose>> ELSE <<>>
        /\ nonce[m].stands => Issued(m)
    BY DEF RowsTell
  <2>2. nonce'[m].used = nonce[m].used /\ (nonce[m].used => nonce'[m].purpose = nonce[m].purpose)
    <3>1. CASE m = n
      BY <1>1, <1>3, <3>1
    <3>2. CASE m # n
      BY <1>1, <3>2
    <3> QED
      BY <3>1, <3>2
  <2>3. nonce'[m].stands => Issued(m)'
    BY <1>1, <2>1, <1>4 DEF Issued
  <2> QED
    BY <2>1, <2>2, <2>3
<1>6. CallsHold' /\ OneSession'
  BY <1>4 DEF CallsHold, OneSession
<1> QED
  BY <1>2, <1>5, <1>6

LEMMA NonceStep == ASSUME NonceInv, NonceNext \/ GitHubNext PROVE NonceInv'
<1> USE DEF NonceInv, NonceCallGoes, NonceCallEnds
<1>0. NonceTypes /\ NoNonceCall \in NonceCall /\ NoNonceCall.pc = "idle"
  BY DEF NoNonceCall, NonceCall
<1>1. CASE GitHubNext
  <2>1. UNCHANGED <<nonce, walletUser, payoutAddress, nonceCall, spent>>
    BY <1>1 DEF GitHubNext, NoncesStand, nonceVars, LoginStart, CallbackUnified, DeleteState, FindUser, InsertUser,
       attachReferral, UpsertGitHubAccount, SetGitHubId, CallbackFails
  <2> QED
    BY <2>1 DEF NonceTypes, RowsTell, CallsHold, OneSession, Issued
<1>2. ASSUME NEW n \in Nonce, SweepOnce(n)  PROVE NonceInv'
  <2> DEFINE r == [nonce[n] EXCEPT !.stands = FALSE]
  <2>1. r \in NonceRow /\ ~r.stands /\ r.used = nonce[n].used /\ r.wallet = nonce[n].wallet /\ r.purpose = nonce[n].purpose
    BY <1>0 DEF NonceTypes, NonceRow
  <2>2. nonce' = [nonce EXCEPT ![n] = r] /\ UNCHANGED <<walletUser, payoutAddress, nonceCall, spent>>
    BY <1>2 DEF SweepOnce
  <2> HIDE DEF r
  <2> QED
    BY <2>1, <2>2, NonceChanges
<1>3. ASSUME NEW n \in Nonce, NEW w \in Wallet, NEW purpose \in {"signin", "payout_address"}, CreateNonce(n, w, purpose)
      PROVE  NonceInv'
  <2> DEFINE r == [wallet |-> w, purpose |-> purpose, used |-> FALSE, stands |-> TRUE]
  <2>1. r \in NonceRow /\ r.wallet \in Wallet /\ r.purpose \in {"signin", "payout_address"} /\ r.used = FALSE
    BY DEF NonceRow
  <2>2. /\ nonce' = [nonce EXCEPT ![n] = r] /\ nonce[n] = NoNonce
        /\ UNCHANGED <<walletUser, payoutAddress, nonceCall, spent>>
    BY <1>3 DEF CreateNonce
  <2> HIDE DEF r
  <2> QED
    BY <2>1, <2>2, NonceChanges
<1>4. ASSUME NEW k \in Caller, NEW n \in Nonce, Verify(k, n)  PROVE NonceInv'
  <2> DEFINE c == [pc |-> "session", user |-> Nil, nonce |-> n, seen |-> walletUser[nonce[n].wallet]]
  <2>1. /\ nonceCall' = [nonceCall EXCEPT ![k] = c] /\ UNCHANGED <<nonce, walletUser, payoutAddress, spent>>
        /\ nonce[n].stands /\ ~nonce[n].used /\ nonce[n].purpose = "signin"
        /\ \A l \in Caller : ~(nonceCall[l].pc = "session" /\ nonceCall[l].nonce = n)
    BY <1>4 DEF Verify
  <2>2. Issued(n)
    BY <2>1 DEF RowsTell
  <2>3. c \in NonceCall /\ c.pc = "session" /\ c.nonce = n
    BY <1>0, <2>2 DEF NonceTypes, NonceCall, Issued
  <2> HIDE DEF c
  <2>4. walletUser' \in [Wallet -> User \cup {Nil}] /\ payoutAddress' \in [User -> Wallet \cup {Nil}]
    BY <1>0, <2>1 DEF NonceTypes
  <2> QED
    BY <2>1, <2>2, <2>3, <2>4, CallGoesOn
<1>5. ASSUME NEW k \in Caller, NEW u \in User, NEW n \in Nonce, PostAddress(k, u, n)  PROVE NonceInv'
  <2> DEFINE c == [pc |-> "consume", user |-> u, nonce |-> n, seen |-> Nil]
  <2>1. /\ nonceCall' = [nonceCall EXCEPT ![k] = c] /\ UNCHANGED <<nonce, walletUser, payoutAddress, spent>>
        /\ nonce[n].stands /\ nonce[n].purpose = "payout_address"
    BY <1>5 DEF PostAddress
  <2>2. Issued(n)
    BY <2>1 DEF RowsTell
  <2>3. c \in NonceCall /\ c.pc \in Presenting /\ c.nonce = n /\ c.user = u
    BY DEF NonceCall, Presenting
  <2> HIDE DEF c
  <2>4. walletUser' \in [Wallet -> User \cup {Nil}] /\ payoutAddress' \in [User -> Wallet \cup {Nil}]
    BY <1>0, <2>1 DEF NonceTypes
  <2> QED
    BY <2>1, <2>2, <2>3, <2>4, CallGoesOn
<1>6. ASSUME NEW k \in Caller, ConsumeNonceAndUpsertUser(k)  PROVE NonceInv'
  <2> DEFINE n == nonceCall[k].nonce
             w == nonce[n].wallet
             readHolder == nonceCall[k].seen
  <2>1. /\ nonceCall[k].pc = "session" /\ nonceCall' = [nonceCall EXCEPT ![k] = NoNonceCall] /\ UNCHANGED payoutAddress
        /\ n \in Nonce /\ Issued(n) /\ ~nonce[n].used /\ nonce[n].purpose = "signin" /\ w \in Wallet
    BY <1>6 DEF ConsumeNonceAndUpsertUser, CallsHold, Issued
  <2>2. CASE readHolder = Nil /\ walletUser[w] # Nil
    <3>1. UNCHANGED <<nonce, walletUser, spent>>
      BY <1>6, <2>2 DEF ConsumeNonceAndUpsertUser
    <3>2. walletUser' \in [Wallet -> User \cup {Nil}] /\ payoutAddress' \in [User -> Wallet \cup {Nil}]
      BY <1>0, <2>1, <3>1 DEF NonceTypes
    <3> QED
      BY <1>0, <2>1, <3>1, <3>2, CallGoesOn
  <2>3. CASE ~(readHolder = Nil /\ walletUser[w] # Nil)
    <3>1. /\ nonce' = [nonce EXCEPT ![n].used = TRUE] /\ spent' = [spent EXCEPT ![n] = Append(spent[n], "signin")]
          /\ UNCHANGED walletUser \/ \E u \in User : walletUser' = [walletUser EXCEPT ![w] = u]
      BY <1>6, <2>3 DEF ConsumeNonceAndUpsertUser
    <3>2. walletUser' \in [Wallet -> User \cup {Nil}]
      BY <1>0, <2>1, <3>1 DEF NonceTypes
    <3> QED
      BY <1>0, <2>1, <3>1, <3>2, NonceIsUsed
  <2> QED
    BY <2>2, <2>3
<1>7. ASSUME NEW k \in Caller, ConsumeNonceForPurpose(k)  PROVE NonceInv'
  <2> DEFINE n == nonceCall[k].nonce
             c == [nonceCall[k] EXCEPT !.pc = "holder"]
  <2>1. /\ nonceCall[k].pc = "consume" /\ UNCHANGED <<walletUser, payoutAddress>>
        /\ n \in Nonce /\ Issued(n) /\ nonceCall[k].user \in User /\ nonce[n].purpose = "payout_address"
    BY <1>7 DEF ConsumeNonceForPurpose, CallsHold, Presenting
  <2>4. walletUser' \in [Wallet -> User \cup {Nil}] /\ payoutAddress' \in [User -> Wallet \cup {Nil}]
    BY <1>0, <2>1 DEF NonceTypes
  <2>2. CASE nonce[n].used
    <3>1. nonceCall' = [nonceCall EXCEPT ![k] = NoNonceCall] /\ UNCHANGED <<nonce, spent>>
      BY <1>7, <2>2 DEF ConsumeNonceForPurpose
    <3> QED
      BY <1>0, <2>4, <3>1, CallGoesOn
  <2>3. CASE ~nonce[n].used
    <3>1. /\ nonce' = [nonce EXCEPT ![n].used = TRUE]
          /\ spent' = [spent EXCEPT ![n] = Append(spent[n], "payout_address")]
          /\ nonceCall' = [nonceCall EXCEPT ![k] = c]
      BY <1>7, <2>3 DEF ConsumeNonceForPurpose
    <3>2. c \in NonceCall /\ c.pc = "holder" /\ c.nonce = n /\ c.user = nonceCall[k].user
      BY <1>0 DEF NonceTypes, NonceCall
    <3> HIDE DEF c
    <3> QED
      BY <2>1, <2>3, <2>4, <3>1, <3>2, NonceIsUsed
  <2> QED
    BY <2>2, <2>3
<1>8. ASSUME NEW k \in Caller, ReadHolder(k)  PROVE NonceInv'
  <2> DEFINE c == [nonceCall[k] EXCEPT !.pc = "insert", !.seen = payoutAddress[nonceCall[k].user]]
  <2>1. /\ nonceCall[k].pc = "holder" /\ UNCHANGED <<nonce, walletUser, payoutAddress, spent>>
        /\ nonceCall[k].nonce \in Nonce /\ Issued(nonceCall[k].nonce) /\ nonceCall[k].user \in User
        /\ nonce[nonceCall[k].nonce].purpose = "payout_address"
    BY <1>8 DEF ReadHolder, CallsHold, Presenting
  <2>2. nonceCall' = [nonceCall EXCEPT ![k] = NoNonceCall] \/ nonceCall' = [nonceCall EXCEPT ![k] = c]
    BY <1>8 DEF ReadHolder
  <2>3. /\ c \in NonceCall /\ c.pc \in Presenting /\ c.nonce = nonceCall[k].nonce /\ c.user = nonceCall[k].user
    BY <1>0, <2>1 DEF NonceTypes, NonceCall, Presenting
  <2>4. walletUser' \in [Wallet -> User \cup {Nil}] /\ payoutAddress' \in [User -> Wallet \cup {Nil}]
    BY <1>0, <2>1 DEF NonceTypes
  <2> HIDE DEF c
  <2> QED
    BY <1>0, <2>1, <2>2, <2>3, <2>4, CallGoesOn
<1>9. ASSUME NEW k \in Caller, CommitAddress(k) \/ NonceCallFails(k)  PROVE NonceInv'
  <2>1. nonceCall' = [nonceCall EXCEPT ![k] = NoNonceCall] /\ UNCHANGED <<nonce, walletUser, spent>>
    BY <1>9 DEF CommitAddress, NonceCallFails
  <2>2. payoutAddress' \in [User -> Wallet \cup {Nil}]
    <3>1. CASE NonceCallFails(k)
      BY <1>0, <3>1 DEF NonceCallFails, NonceTypes
    <3>2. CASE CommitAddress(k)
      <4>1. nonceCall[k].user \in User /\ nonce[nonceCall[k].nonce].wallet \in Wallet
        BY <3>2 DEF CommitAddress, CallsHold, Presenting, Issued
      <4> QED
        BY <1>0, <3>2, <4>1 DEF CommitAddress, NonceTypes
    <3> QED
      BY <1>9, <3>1, <3>2
  <2>3. walletUser' \in [Wallet -> User \cup {Nil}]
    BY <1>0, <2>1 DEF NonceTypes
  <2> QED
    BY <1>0, <2>1, <2>2, <2>3, CallGoesOn
<1> QED
  BY <1>1, <1>2, <1>3, <1>4, <1>5, <1>6, <1>7, <1>8, <1>9 DEF NonceNext

LEMMA NoncesSound == SignInSpec => [](NonceInv /\ SpentOnce)
<1>1. NonceInv /\ UNCHANGED signInVars => NonceInv'
  BY DEF signInVars, nonceVars, NonceInv, NonceTypes, RowsTell, CallsHold, OneSession, Issued
<1>2. NonceInv => SpentOnce
  <2> SUFFICES ASSUME NonceInv, NEW n \in Nonce
               PROVE  Len(spent[n]) <= 1 /\ \A i \in DOMAIN spent[n] : spent[n][i] = nonce[n].purpose
    BY DEF SpentOnce
  <2>1. CASE nonce[n].used
    <3>1. spent[n] = <<nonce[n].purpose>>
      BY <2>1 DEF NonceInv, RowsTell
    <3>2. Len(<<nonce[n].purpose>>) = 1 /\ DOMAIN <<nonce[n].purpose>> = {1}
      OBVIOUS
    <3> QED
      BY <3>1, <3>2
  <2>2. CASE ~nonce[n].used
    <3>1. spent[n] = <<>>
      BY <2>2 DEF NonceInv, RowsTell
    <3>2. Len(<<>>) = 0 /\ DOMAIN <<>> = {}
      OBVIOUS
    <3> QED
      BY <3>1, <3>2
  <2> QED
    BY <2>1, <2>2
<1> QED
  BY <1>1, <1>2, NoncesBegin, NonceStep, PTL DEF SignInSpec

\* Whoever had a payout address keeps one, and only a registration of theirs moves it:
\* what a commit writes is a wallet (payout_address.go).
THEOREM DestinationIsKept == SignInSpec => DestinationKept
<1>1. ASSUME NonceInv, [NonceNext \/ GitHubNext]_signInVars, NEW u \in User, payoutAddress'[u] # payoutAddress[u]
      PROVE  payoutAddress'[u] # Nil /\ \E k \in Caller : nonceCall[k].pc = "insert" /\ nonceCall[k].user = u
  <2>1. PICK k \in Caller : CommitAddress(k)
    BY <1>1 DEF NonceNext, GitHubNext, NoncesStand, nonceVars, signInVars, LoginStart, CallbackUnified, DeleteState,
       FindUser, InsertUser, attachReferral, UpsertGitHubAccount, SetGitHubId, CallbackFails, SweepOnce, CreateNonce,
       Verify, PostAddress, ConsumeNonceAndUpsertUser, ConsumeNonceForPurpose, ReadHolder, NonceCallFails
  <2>2. nonceCall[k].pc = "insert" /\ nonce[nonceCall[k].nonce].wallet \in Wallet /\ nonceCall[k].user \in User
    BY <1>1, <2>1 DEF CommitAddress, NonceInv, CallsHold, Presenting, Issued
  <2>3. payoutAddress' = [payoutAddress EXCEPT ![nonceCall[k].user] = nonce[nonceCall[k].nonce].wallet]
    BY <1>1, <2>1 DEF CommitAddress
  <2>4. u = nonceCall[k].user /\ payoutAddress'[u] \in Wallet
    BY <1>1, <2>2, <2>3 DEF NonceInv, NonceTypes
  <2> QED
    BY <2>2, <2>4, SignInAssumption
<1>2. NonceInv /\ [NonceNext \/ GitHubNext]_signInVars =>
        (\A u \in User : payoutAddress'[u] # payoutAddress[u] =>
           payoutAddress'[u] # Nil /\ \E k \in Caller : nonceCall[k].pc = "insert" /\ nonceCall[k].user = u)
  BY <1>1
<1> QED
  BY <1>2, NoncesSound, PTL DEF SignInSpec, DestinationKept

Callback ==
  [pc : {"idle", "delete", "find", "insert", "refer", "account", "id"}, state : OAuthState \cup {Nil},
   kind : {"none", "login", "gone"} \cup Settler, id : Identity \cup {Nil}, user : User \cup {Nil},
   before : SUBSET User]

CallbackTypes ==
  /\ callback \in [Caller -> Callback] /\ created \in SUBSET User
  /\ oauthState \in [OAuthState -> {"none", "login", "gone"} \cup Settler]
  /\ referredBy \in [User -> BOOLEAN]

NewcomersAreNew ==
  \A k \in Caller : /\ callback[k].before \subseteq created
                    /\ callback[k].pc = "delete" => callback[k].kind \in {"login"} \cup Settler
                    /\ callback[k].pc = "refer" => callback[k].user \notin callback[k].before

CallbackInv == CallbackTypes /\ NewcomersAreNew

\* Every step of a callback: it keeps what existed when it began, or begins now.
LEMMA CallbackMoves ==
  ASSUME CallbackInv, NEW k \in Caller, NEW c \in Callback, callback' = [callback EXCEPT ![k] = c],
         created \subseteq created', created' \in SUBSET User, referredBy' \in [User -> BOOLEAN],
         oauthState' \in [OAuthState -> {"none", "login", "gone"} \cup Settler],
         c.before \subseteq created, c.pc = "delete" => c.kind \in {"login"} \cup Settler,
         c.pc = "refer" => c.user \notin c.before
  PROVE  CallbackInv'
<1>1. /\ callback'[k] = c /\ \A l \in Caller \ {k} : callback'[l] = callback[l]
      /\ callback' \in [Caller -> Callback]
  BY DEF CallbackInv, CallbackTypes
<1> QED
  BY <1>1 DEF CallbackInv, CallbackTypes, NewcomersAreNew

LEMMA CallbacksBegin == SignInInit => CallbackInv
<1>1. NoCallback \in Callback /\ NoCallback.before = {} /\ NoCallback.pc = "idle"
  BY DEF NoCallback, Callback
<1> QED
  BY <1>1, SignInAssumption DEF SignInInit, CallbackInv, CallbackTypes, NewcomersAreNew

LEMMA CallbackStep == ASSUME CallbackInv, NonceNext \/ GitHubNext PROVE CallbackInv'
<1> USE DEF CallbackGoes, CallbackEnds
<1>0. /\ CallbackTypes /\ NoCallback \in Callback /\ NoCallback.before = {} /\ NoCallback.pc = "idle"
      /\ \A k \in Caller : callback[k] \in Callback /\ callback[k].before \subseteq created
  BY DEF CallbackInv, CallbackTypes, NewcomersAreNew, NoCallback, Callback
<1>1. CASE NonceNext
  <2>1. UNCHANGED <<oauthState, referredBy, callback>>
    BY <1>1 DEF NonceNext, gitHubVars, SweepOnce, CreateNonce, Verify, PostAddress, ConsumeNonceAndUpsertUser,
       ConsumeNonceForPurpose, ReadHolder, CommitAddress, NonceCallFails
  <2>2. created \subseteq created' /\ created' \in SUBSET User
    BY <1>0, <1>1 DEF CallbackTypes, NonceNext, gitHubVars, SweepOnce, CreateNonce, Verify, PostAddress,
       ConsumeNonceAndUpsertUser, ConsumeNonceForPurpose, ReadHolder, CommitAddress, NonceCallFails
  <2> QED
    BY <1>0, <2>1, <2>2 DEF CallbackInv, CallbackTypes, NewcomersAreNew
<1>2. ASSUME NEW s \in OAuthState, NEW kind \in {"login"} \cup Settler, LoginStart(s, kind)  PROVE CallbackInv'
  <2>1. oauthState' = [oauthState EXCEPT ![s] = kind] /\ UNCHANGED <<created, referredBy, callback>>
    BY <1>2 DEF LoginStart
  <2> QED
    BY <1>0, <2>1 DEF CallbackInv, CallbackTypes, NewcomersAreNew
<1>3. ASSUME NEW k \in Caller, NEW s \in OAuthState, NEW g \in Identity, CallbackUnified(k, s, g)  PROVE CallbackInv'
  <2> DEFINE c == [pc |-> "delete", state |-> s, kind |-> oauthState[s], id |-> g, user |-> Nil, before |-> created]
  <2>1. callback' = [callback EXCEPT ![k] = c] /\ UNCHANGED <<created, oauthState, referredBy>>
    BY <1>3 DEF CallbackUnified
  <2>2. c \in Callback /\ c.before = created /\ c.pc = "delete" /\ c.kind \in {"login"} \cup Settler
    BY <1>0, <1>3 DEF CallbackTypes, Callback, CallbackUnified
  <2>3. /\ created' \in SUBSET User /\ referredBy' \in [User -> BOOLEAN]
        /\ oauthState' \in [OAuthState -> {"none", "login", "gone"} \cup Settler]
    BY <1>0, <2>1 DEF CallbackTypes
  <2> HIDE DEF c
  <2> QED
    BY <2>1, <2>2, <2>3, CallbackMoves
<1>4. ASSUME NEW k \in Caller, DeleteState(k) \/ FindUser(k) \/ UpsertGitHubAccount(k) \/ SetGitHubId(k) \/ CallbackFails(k)
      PROVE  CallbackInv'
  <2>1. PICK c \in Callback : /\ callback' = [callback EXCEPT ![k] = c] /\ c.pc \notin {"delete", "refer"} /\ c.before \subseteq created
    <3>1. CASE CallbackFails(k) \/ SetGitHubId(k)
      BY <1>0, <3>1 DEF CallbackFails, SetGitHubId
    <3>2. ASSUME NEW at \in {"find", "insert", "id"}, callback' = [callback EXCEPT ![k].pc = at]
          PROVE  \E c \in Callback : callback' = [callback EXCEPT ![k] = c] /\ c.pc \notin {"delete", "refer"} /\ c.before \subseteq created
      <4> DEFINE c == [callback[k] EXCEPT !.pc = at]
      <4>1. c \in Callback /\ c.pc \notin {"delete", "refer"} /\ c.before \subseteq created
        BY <1>0 DEF Callback
      <4>2. callback' = [callback EXCEPT ![k] = c]
        BY <3>2
      <4> HIDE DEF c
      <4> QED
        BY <4>1, <4>2
    <3>3. ASSUME NEW u \in User, callback' = [callback EXCEPT ![k].pc = "account", ![k].user = u]
          PROVE  \E c \in Callback : callback' = [callback EXCEPT ![k] = c] /\ c.pc \notin {"delete", "refer"} /\ c.before \subseteq created
      <4> DEFINE c == [callback[k] EXCEPT !.pc = "account", !.user = u]
      <4>1. c \in Callback /\ c.pc \notin {"delete", "refer"} /\ c.before \subseteq created
        BY <1>0 DEF Callback
      <4>2. callback' = [callback EXCEPT ![k] = c]
        BY <1>0, <3>3 DEF CallbackTypes
      <4> HIDE DEF c
      <4> QED
        BY <4>1, <4>2
    <3>4. CASE DeleteState(k)
      <4>1. CASE callback[k].kind = "login"
        BY <3>2, <3>4, <4>1 DEF DeleteState
      <4>2. CASE callback[k].kind # "login"
        <5>1. callback[k].kind \in Settler
          BY <3>4, <4>2 DEF DeleteState, CallbackInv, NewcomersAreNew
        <5> QED
          BY <3>3, <3>4, <4>2, <5>1, SignInAssumption DEF DeleteState
      <4> QED
        BY <4>1, <4>2
    <3>5. CASE FindUser(k)
      <4>1. CASE Known(callback[k].id) = {}
        BY <3>2, <3>5, <4>1 DEF FindUser
      <4>2. CASE Known(callback[k].id) # {}
        <5>1. PICK u \in Known(callback[k].id) : callback' = [callback EXCEPT ![k].pc = "account", ![k].user = u]
          BY <3>5, <4>2 DEF FindUser
        <5>2. u \in User
          BY <1>0, <5>1 DEF Known, CallbackTypes
        <5> QED
          BY <3>3, <5>1, <5>2
      <4> QED
        BY <4>1, <4>2
    <3>6. CASE UpsertGitHubAccount(k)
      BY <1>0, <3>2, <3>6 DEF UpsertGitHubAccount
    <3> QED
      BY <1>4, <3>1, <3>4, <3>5, <3>6
  <2>2. UNCHANGED <<created, referredBy>>
    BY <1>4 DEF DeleteState, FindUser, UpsertGitHubAccount, SetGitHubId, CallbackFails
  <2>3. oauthState' \in [OAuthState -> {"none", "login", "gone"} \cup Settler]
    BY <1>0, <1>4 DEF DeleteState, FindUser, UpsertGitHubAccount, SetGitHubId, CallbackFails, CallbackTypes
  <2>4. created' \in SUBSET User /\ referredBy' \in [User -> BOOLEAN]
    BY <1>0, <2>2 DEF CallbackTypes
  <2> QED
    BY <2>1, <2>2, <2>3, <2>4, CallbackMoves
<1>5. ASSUME NEW k \in Caller, InsertUser(k)  PROVE CallbackInv'
  <2>1. UNCHANGED <<oauthState, referredBy>>
    BY <1>5 DEF InsertUser
  <2>2. /\ referredBy' \in [User -> BOOLEAN] /\ oauthState' \in [OAuthState -> {"none", "login", "gone"} \cup Settler]
    BY <1>0, <2>1 DEF CallbackTypes
  <2>3. CASE Known(callback[k].id) # {}
    <3>1. callback' = [callback EXCEPT ![k] = NoCallback] /\ UNCHANGED created /\ created \in SUBSET User
      BY <1>0, <1>5, <2>3 DEF InsertUser, CallbackTypes
    <3> QED
      BY <1>0, <2>2, <3>1, CallbackMoves
  <2>4. CASE Known(callback[k].id) = {}
    <3>1. PICK u \in User \ created :
            /\ created' = created \cup {u}
            /\ callback' = [callback EXCEPT ![k].user = u,
                                            ![k].pc = IF callback[k].state \in Referrable THEN "refer" ELSE "account"]
      BY <1>5, <2>4 DEF InsertUser
    <3> DEFINE at == IF callback[k].state \in Referrable THEN "refer" ELSE "account"
               c == [callback[k] EXCEPT !.user = u, !.pc = at]
    <3>2. at \in {"refer", "account"}
      OBVIOUS
    <3> HIDE DEF at
    <3>3. c \in Callback /\ c.user = u /\ c.pc # "delete" /\ c.before = callback[k].before
      BY <1>0, <3>2 DEF Callback
    <3>4. callback' = [callback EXCEPT ![k] = c]
      BY <1>0, <3>1 DEF CallbackTypes, at
    <3> HIDE DEF c
    <3>5. created \subseteq created' /\ created' \in SUBSET User /\ u \notin c.before /\ c.before \subseteq created
      BY <1>0, <3>1, <3>3 DEF CallbackTypes
    <3> QED
      BY <2>2, <3>3, <3>4, <3>5, CallbackMoves
  <2> QED
    BY <2>3, <2>4
<1>6. ASSUME NEW k \in Caller, attachReferral(k)  PROVE CallbackInv'
  <2> DEFINE c == [callback[k] EXCEPT !.pc = "account"]
  <2>1. /\ callback' = [callback EXCEPT ![k] = c] /\ UNCHANGED <<created, oauthState>>
        /\ referredBy' = [referredBy EXCEPT ![callback[k].user] = TRUE]
    BY <1>6 DEF attachReferral
  <2>2. c \in Callback /\ c.pc = "account" /\ c.before \subseteq created
    BY <1>0 DEF Callback
  <2>3. /\ created' \in SUBSET User /\ referredBy' \in [User -> BOOLEAN]
        /\ oauthState' \in [OAuthState -> {"none", "login", "gone"} \cup Settler]
    BY <1>0, <2>1 DEF CallbackTypes
  <2> HIDE DEF c
  <2> QED
    BY <2>1, <2>2, <2>3, CallbackMoves
<1> QED
  BY <1>1, <1>2, <1>3, <1>4, <1>5, <1>6 DEF GitHubNext

\* A referral goes to an account its own callback created, never to one that was there
\* when the visitor came back from GitHub (github_oauth.go).
THEOREM NewcomersAlone == SignInSpec => NewcomersOnly
<1>1. CallbackInv /\ UNCHANGED signInVars => CallbackInv'
  BY DEF signInVars, gitHubVars, CallbackInv, CallbackTypes, NewcomersAreNew
<1>2. ASSUME CallbackInv, [NonceNext \/ GitHubNext]_signInVars, NEW u \in User, referredBy'[u] # referredBy[u]
      PROVE  \E k \in Caller : callback[k].user = u /\ u \notin callback[k].before
  <2>1. PICK k \in Caller : attachReferral(k)
    BY <1>2 DEF NonceNext, GitHubNext, signInVars, gitHubVars, LoginStart, CallbackUnified, DeleteState, FindUser,
       InsertUser, UpsertGitHubAccount, SetGitHubId, CallbackFails, SweepOnce, CreateNonce, Verify, PostAddress,
       ConsumeNonceAndUpsertUser, ConsumeNonceForPurpose, ReadHolder, CommitAddress, NonceCallFails
  <2>2. u = callback[k].user /\ callback[k].pc = "refer"
    BY <1>2, <2>1 DEF attachReferral, CallbackInv, CallbackTypes
  <2> QED
    BY <1>2, <2>2 DEF CallbackInv, NewcomersAreNew
<1>3. CallbackInv /\ [NonceNext \/ GitHubNext]_signInVars =>
        (\A u \in User : referredBy'[u] # referredBy[u] =>
           \E k \in Caller : callback[k].user = u /\ u \notin callback[k].before)
  BY <1>2
<1> QED
  BY <1>1, <1>3, CallbacksBegin, CallbackStep, PTL DEF SignInSpec, NewcomersOnly

-----------------------------------------------------------------------------
(* Support requests: what a row says was delivered was seen.                      *)

ReportFields == {"pc", "category", "anonymous", "shot", "fallback"}
Row == [stands : BOOLEAN, discord : BOOLEAN, topic : BOOLEAN, fallback : BOOLEAN, admin : BOOLEAN]

\* Where a report that is not about an identity check was last posted in the group.
InGroup(fallback) == IF fallback THEN "general" ELSE "topic"

\* A report, its row and what was seen of it.
SupportSound(rep, row, saw) ==
  /\ DOMAIN rep = ReportFields /\ row \in Row /\ rep.fallback \in BOOLEAN
  /\ rep.pc = "new" => row = NoRow /\ saw = {}
  /\ rep.category = "kyc" => /\ \A post \in saw : post[1] = "admin"
                             /\ rep.pc \notin {"markDiscord", "topic", "general"} /\ ~row.discord /\ ~row.topic
  /\ rep.pc = "admin" => rep.category = "kyc"
  /\ \A post \in saw : post[2] = "image" => post[1] \notin {"topic", "general"}
  /\ rep.pc = "markDiscord" \/ row.discord => <<"discord", "details">> \in saw
  /\ row.topic => <<InGroup(row.fallback), "details">> \in saw
  /\ row.admin => <<"admin", "details">> \in saw
  /\ rep.pc \in {"image", "markTelegram"} =>
       <<IF rep.category = "kyc" THEN "admin" ELSE InGroup(rep.fallback), "details">> \in saw

SupportInv ==
  /\ DOMAIN report = Report /\ DOMAIN supportRow = Report /\ DOMAIN seen = Report
  /\ \A r \in Report : SupportSound(report[r], supportRow[r], seen[r])

LEMMA NothingStamped ==
  ASSUME NEW rep, DOMAIN rep = ReportFields, rep.fallback \in BOOLEAN,
         rep.pc \notin {"markDiscord", "admin", "topic", "general", "image", "markTelegram"}
  PROVE  SupportSound(rep, NoRow, {})
<1>1. NoRow \in Row /\ ~NoRow.discord /\ ~NoRow.topic /\ ~NoRow.admin
  BY DEF NoRow, Row
<1> QED
  BY <1>1 DEF SupportSound

LEMMA SupportBegins == SupportInit => SupportInv
<1> SUFFICES ASSUME SupportInit PROVE SupportInv
  OBVIOUS
<1>1. DOMAIN NoReport = ReportFields /\ NoReport.fallback = FALSE /\ NoReport.pc = "new"
  BY DEF NoReport, ReportFields
<1>2. SupportSound(NoReport, NoRow, {})
  BY <1>1, NothingStamped
<1> QED
  BY <1>2 DEF SupportInit, SupportInv

\* One report moves.
LEMMA ReportMoves ==
  ASSUME SupportInv, NEW r \in Report, NEW rep, NEW row, NEW saw, SupportSound(rep, row, saw),
         report' = [report EXCEPT ![r] = rep] \/ (report' = report /\ rep = report[r]),
         supportRow' = [supportRow EXCEPT ![r] = row] \/ (supportRow' = supportRow /\ row = supportRow[r]),
         seen' = [seen EXCEPT ![r] = saw] \/ (seen' = seen /\ saw = seen[r])
  PROVE  SupportInv'
<1>1. DOMAIN report' = Report /\ \A q \in Report : report'[q] = IF q = r THEN rep ELSE report[q]
  BY DEF SupportInv
<1>2. DOMAIN supportRow' = Report /\ \A q \in Report : supportRow'[q] = IF q = r THEN row ELSE supportRow[q]
  BY DEF SupportInv
<1>3. DOMAIN seen' = Report /\ \A q \in Report : seen'[q] = IF q = r THEN saw ELSE seen[q]
  BY DEF SupportInv
<1> QED
  BY <1>1, <1>2, <1>3 DEF SupportInv

LEMMA SupportStep == ASSUME SupportInv, [SupportNext]_supportVars PROVE SupportInv'
<1>0. ASSUME NEW r \in Report
      PROVE  /\ SupportSound(report[r], supportRow[r], seen[r])
             /\ DOMAIN report = Report /\ DOMAIN supportRow = Report /\ DOMAIN seen = Report
  BY <1>0 DEF SupportInv
\* A report with another pc.
<1>1. ASSUME NEW r \in Report, NEW pc
      PROVE  LET rep == [report[r] EXCEPT !.pc = pc] IN
             /\ DOMAIN rep = ReportFields /\ rep.pc = pc /\ rep.category = report[r].category
             /\ rep.fallback = report[r].fallback
  BY <1>0 DEF SupportSound, ReportFields
\* Only the pc moves, to where nothing has to have been seen.
<1>2. ASSUME NEW r \in Report, NEW pc, ReportGoes(r, pc), report[r].pc # "new", UNCHANGED <<supportRow, seen>>,
             pc \notin {"new", "markDiscord", "image", "markTelegram"},
             report[r].category = "kyc" => pc \notin {"topic", "general"}, pc = "admin" => report[r].category = "kyc"
      PROVE  SupportInv'
  <2> DEFINE rep == [report[r] EXCEPT !.pc = pc]
  <2>1. DOMAIN rep = ReportFields /\ rep.pc = pc /\ rep.category = report[r].category
        /\ rep.fallback = report[r].fallback
    BY <1>1
  <2>2. report' = [report EXCEPT ![r] = rep]
    BY <1>0, <1>2 DEF ReportGoes
  <2> HIDE DEF rep
  <2>3. SupportSound(rep, supportRow[r], seen[r])
    BY <1>0, <1>2, <2>1 DEF SupportSound
  <2> QED
    BY <1>2, <2>2, <2>3, ReportMoves
<1>3. ASSUME NEW r \in Report, NEW s \in Says[r], identify(r, s.category, s.anonymous, s.shot)  PROVE SupportInv'
  <2> DEFINE rep == [pc |-> IF s.anonymous THEN "count" ELSE "insert", category |-> s.category,
                     anonymous |-> s.anonymous, shot |-> s.shot, fallback |-> FALSE]
  <2>1. report[r].pc = "new" /\ report' = [report EXCEPT ![r] = rep] /\ UNCHANGED <<supportRow, seen>>
    BY <1>3 DEF identify
  <2>2. DOMAIN rep = ReportFields /\ rep.pc \in {"count", "insert"} /\ rep.fallback = FALSE
    BY DEF ReportFields
  <2> HIDE DEF rep
  <2>3. supportRow[r] = NoRow /\ seen[r] = {} /\ supportRow[r] \in Row
    BY <1>0, <2>1 DEF SupportSound
  <2>4. SupportSound(rep, supportRow[r], seen[r])
    BY <2>2, <2>3, NothingStamped
  <2> QED
    BY <2>1, <2>4, ReportMoves
<1>4. ASSUME NEW r \in Report, NEW fails \in BOOLEAN, CountAnonymous(r, fails)  PROVE SupportInv'
  BY <1>2, <1>4 DEF CountAnonymous
<1>5. ASSUME NEW r \in Report, NEW fails \in BOOLEAN, Create(r, fails)  PROVE SupportInv'
  <2>1. CASE fails
    BY <1>2, <1>5, <2>1 DEF Create
  <2>2. CASE ~fails
    <3> DEFINE rep == [report[r] EXCEPT !.pc = "discord"]
               row == [supportRow[r] EXCEPT !.stands = TRUE]
    <3>1. /\ report[r].pc = "insert" /\ report' = [report EXCEPT ![r] = rep]
          /\ supportRow' = [supportRow EXCEPT ![r] = row] /\ seen' = seen
      BY <1>0, <1>5, <2>2 DEF Create, ReportGoes
    <3>2. DOMAIN rep = ReportFields /\ rep.pc = "discord" /\ rep.category = report[r].category
          /\ rep.fallback = report[r].fallback
      BY <1>1
    <3>3. /\ row \in Row /\ row.discord = supportRow[r].discord /\ row.topic = supportRow[r].topic
          /\ row.fallback = supportRow[r].fallback /\ row.admin = supportRow[r].admin
      BY <1>0 DEF SupportSound, Row
    <3> HIDE DEF rep, row
    <3>4. SupportSound(rep, row, seen[r])
      BY <1>0, <3>1, <3>2, <3>3 DEF SupportSound
    <3> QED
      BY <3>1, <3>4, ReportMoves
  <2> QED
    BY <2>1, <2>2
<1>6. ASSUME NEW r \in Report, NEW answer \in Answer, DeliverDiscord(r, answer)  PROVE SupportInv'
  <2>1. CASE ~Takes(r, "discord")
    BY <1>2, <1>6, <2>1 DEF DeliverDiscord
  <2>2. CASE Takes(r, "discord")
    <3> DEFINE pc == IF answer = "done" THEN "markDiscord" ELSE "telegram"
               rep == [report[r] EXCEPT !.pc = pc]
               post == {<<"discord", "details">>} \cup (IF report[r].shot THEN {<<"discord", "image">>} ELSE {})
               saw == seen[r] \cup post
    <3>1. /\ report[r].pc = "discord" /\ report[r].category # "kyc" /\ report' = [report EXCEPT ![r] = rep]
          /\ supportRow' = supportRow /\ seen' = IF answer = "refused" THEN seen ELSE [seen EXCEPT ![r] = saw]
      BY <1>0, <1>6, <2>2 DEF DeliverDiscord, ReportGoes, Takes, Handles
    <3>2. DOMAIN rep = ReportFields /\ rep.pc = pc /\ rep.category = report[r].category
          /\ rep.fallback = report[r].fallback
      BY <1>1
    <3>3. <<"discord", "details">> \in saw /\ \A p \in saw : p \in seen[r] \/ p[1] = "discord"
      OBVIOUS
    <3>4. seen[r] \subseteq saw /\ (pc = "markDiscord" => answer # "refused") /\ pc \in {"markDiscord", "telegram"}
      OBVIOUS
    <3> HIDE DEF rep, saw, pc
    <3>5. SupportSound(rep, supportRow[r], saw)
      BY <1>0, <3>1, <3>2, <3>3, <3>4 DEF SupportSound
    <3>6. answer = "refused" => SupportSound(rep, supportRow[r], seen[r])
      BY <1>0, <3>1, <3>2, <3>4 DEF SupportSound
    <3> QED
      BY <3>1, <3>5, <3>6, ReportMoves
  <2> QED
    BY <2>1, <2>2
<1>7. ASSUME NEW r \in Report, DeliverTelegram(r)  PROVE SupportInv'
  BY <1>2, <1>7 DEF DeliverTelegram
\* A message is sent to one place, the admin's chat or the group.
<1>8. ASSUME NEW r \in Report, NEW place \in {"admin", "topic", "general"}, NEW answer \in Answer,
             NEW failed \in {"finished", "general"}, SendTo(r, place, answer, "image", failed), report[r].pc = place,
             report[r].category = "kyc" <=> place = "admin", failed = "general" => place = "topic"
      PROVE  SupportInv'
  <2> DEFINE pc == IF answer = "done" THEN "image" ELSE failed
             rep == [report[r] EXCEPT !.pc = pc, !.fallback = place = "general"]
             saw == seen[r] \cup {<<place, "details">>}
  <2>1. /\ report' = [report EXCEPT ![r] = rep] /\ supportRow' = supportRow
        /\ seen' = IF answer = "refused" THEN seen ELSE [seen EXCEPT ![r] = saw]
    BY <1>0, <1>8 DEF SendTo, Posts
  <2>2. DOMAIN rep = ReportFields /\ rep.pc = pc /\ rep.category = report[r].category
        /\ rep.fallback = (place = "general")
    BY <1>0 DEF SupportSound, ReportFields
  <2>3. <<place, "details">> \in saw /\ (\A p \in saw : p \in seen[r] \/ p = <<place, "details">>) /\ seen[r] \subseteq saw
    OBVIOUS
  <2>4. pc \in {"image", failed} /\ (pc = "image" => answer # "refused")
    BY <1>8
  <2>5. place # "admin" => place = InGroup(rep.fallback)
    <3>1. CASE place = "general"
      BY <2>2, <3>1 DEF InGroup
    <3>2. CASE place = "topic"
      BY <2>2, <3>2 DEF InGroup
    <3> QED
      BY <1>8, <3>1, <3>2
  <2> HIDE DEF rep, saw, pc
  <2>6. SupportSound(rep, supportRow[r], saw)
    <3>1. rep.fallback \in BOOLEAN /\ rep.pc \notin {"new", "markDiscord", "admin", "markTelegram"}
      BY <1>8, <2>2, <2>4
    <3>2. ASSUME NEW p \in saw
          PROVE  /\ p[2] = "image" => p[1] \notin {"topic", "general"}
                 /\ rep.category = "kyc" => p[1] = "admin"
      <4>1. CASE p \in seen[r]
        BY <1>0, <2>2, <4>1 DEF SupportSound
      <4>2. CASE p = <<place, "details">>
        <5>1. p[1] = place /\ p[2] = "details"
          BY <4>2
        <5> QED
          BY <1>8, <2>2, <5>1
      <4> QED
        BY <2>3, <4>1, <4>2
    <3>3. rep.pc = "image" => <<IF rep.category = "kyc" THEN "admin" ELSE InGroup(rep.fallback), "details">> \in saw
      BY <1>8, <2>2, <2>3, <2>5
    <3>4. rep.category = "kyc" => rep.pc \notin {"topic", "general"} /\ ~supportRow[r].discord /\ ~supportRow[r].topic
      BY <1>0, <1>8, <2>2, <2>4 DEF SupportSound
    <3>5. /\ supportRow[r] \in Row
          /\ supportRow[r].discord => <<"discord", "details">> \in saw
          /\ supportRow[r].topic => <<InGroup(supportRow[r].fallback), "details">> \in saw
          /\ supportRow[r].admin => <<"admin", "details">> \in saw
      BY <1>0, <2>3 DEF SupportSound
    <3>6. rep.category = "kyc" => /\ \A p \in saw : p[1] = "admin"
                                  /\ rep.pc \notin {"markDiscord", "topic", "general"}
                                  /\ ~supportRow[r].discord /\ ~supportRow[r].topic
      BY <3>1, <3>2, <3>4
    <3>7. \A p \in saw : p[2] = "image" => p[1] \notin {"topic", "general"}
      BY <3>2
    <3> QED
      BY <2>2, <3>1, <3>3, <3>5, <3>6, <3>7 DEF SupportSound
  <2>7. answer = "refused" => SupportSound(rep, supportRow[r], seen[r])
    BY <1>0, <1>8, <2>2, <2>4 DEF SupportSound
  <2> QED
    BY <2>1, <2>6, <2>7, ReportMoves
<1>9. ASSUME NEW r \in Report, NEW answer \in Answer,
             deliverKYCToAdmin(r, answer) \/ deliverToTopic(r, answer) \/ fallBackToGeneral(r, answer)
      PROVE  SupportInv'
  <2>1. report[r].pc \in {"topic", "general"} => report[r].category # "kyc"
    BY <1>0 DEF SupportSound
  <2>2. report[r].pc = "admin" => report[r].category = "kyc"
    BY <1>0 DEF SupportSound
  <2> QED
    BY <1>8, <1>9, <2>1, <2>2 DEF deliverKYCToAdmin, deliverToTopic, fallBackToGeneral
<1>10. ASSUME NEW r \in Report, NEW answer \in Answer, attachScreenshot(r, answer)  PROVE SupportInv'
  <2> DEFINE rep == [report[r] EXCEPT !.pc = "markTelegram"]
             saw == seen[r] \cup {<<"admin", "image">>}
  <2>1. /\ report[r].pc = "image" /\ report' = [report EXCEPT ![r] = rep] /\ supportRow' = supportRow
        /\ seen' = seen \/ seen' = [seen EXCEPT ![r] = saw]
    BY <1>0, <1>10 DEF attachScreenshot, ReportGoes, Posts
  <2>2. DOMAIN rep = ReportFields /\ rep.pc = "markTelegram" /\ rep.category = report[r].category
        /\ rep.fallback = report[r].fallback
    BY <1>1
  <2>3. (\A p \in saw : p \in seen[r] \/ p[1] = "admin") /\ seen[r] \subseteq saw
    OBVIOUS
  <2> HIDE DEF rep, saw
  <2>4. SupportSound(rep, supportRow[r], seen[r])
    BY <1>0, <2>1, <2>2 DEF SupportSound
  <2>5. SupportSound(rep, supportRow[r], saw)
    BY <2>3, <2>2, <2>4 DEF SupportSound
  <2> QED
    BY <2>1, <2>4, <2>5, ReportMoves
<1>11. ASSUME NEW r \in Report, NEW fails \in BOOLEAN, markDelivered(r, fails)  PROVE SupportInv'
  <2> DEFINE done == supportRow[r].stands /\ ~fails
  <2>1. supportRow[r] \in Row /\ done \in BOOLEAN /\ report[r].fallback \in BOOLEAN
    BY <1>0 DEF SupportSound
  <2> HIDE DEF done
  <2>2. CASE Stamp(r, "markDiscord", [supportRow[r] EXCEPT !.discord = done], "telegram")
    <3> DEFINE row == [supportRow[r] EXCEPT !.discord = done]
               rep == [report[r] EXCEPT !.pc = "telegram"]
    <3>1. /\ report[r].pc = "markDiscord" /\ report' = [report EXCEPT ![r] = rep] /\ seen' = seen
          /\ supportRow' = [supportRow EXCEPT ![r] = row]
      BY <1>0, <1>11, <2>2 DEF Stamp, ReportGoes, markDelivered
    <3>2. DOMAIN rep = ReportFields /\ rep.pc = "telegram" /\ rep.category = report[r].category
          /\ rep.fallback = report[r].fallback
      BY <1>1
    <3>3. /\ row \in Row /\ row.topic = supportRow[r].topic /\ row.fallback = supportRow[r].fallback
          /\ row.admin = supportRow[r].admin
      BY <2>1 DEF Row
    <3> HIDE DEF row, rep
    <3>4. SupportSound(rep, row, seen[r])
      BY <1>0, <3>1, <3>2, <3>3 DEF SupportSound
    <3> QED
      BY <3>1, <3>4, ReportMoves
  <2>3. CASE Stamp(r, "markTelegram",
                   IF report[r].category = "kyc" THEN [supportRow[r] EXCEPT !.admin = done]
                   ELSE [supportRow[r] EXCEPT !.topic = done, !.fallback = done /\ report[r].fallback], "finished")
    <3> DEFINE rep == [report[r] EXCEPT !.pc = "finished"]
    <3>1. report[r].pc = "markTelegram" /\ report' = [report EXCEPT ![r] = rep] /\ seen' = seen
      BY <1>0, <1>11, <2>3 DEF Stamp, ReportGoes, markDelivered
    <3>2. DOMAIN rep = ReportFields /\ rep.pc = "finished" /\ rep.category = report[r].category
          /\ rep.fallback = report[r].fallback
      BY <1>1
    <3> HIDE DEF rep
    <3>3. CASE report[r].category = "kyc"
      <4> DEFINE row == [supportRow[r] EXCEPT !.admin = done]
      <4>1. supportRow' = [supportRow EXCEPT ![r] = row]
        BY <2>3, <3>3 DEF Stamp
      <4>2. /\ row \in Row /\ row.topic = supportRow[r].topic /\ row.fallback = supportRow[r].fallback
            /\ row.discord = supportRow[r].discord
        BY <2>1 DEF Row
      <4> HIDE DEF row
      <4>3. SupportSound(rep, row, seen[r])
        BY <1>0, <3>1, <3>2, <3>3, <4>2 DEF SupportSound
      <4> QED
        BY <3>1, <4>1, <4>3, ReportMoves
    <3>4. CASE report[r].category # "kyc"
      <4> DEFINE row == [supportRow[r] EXCEPT !.topic = done, !.fallback = done /\ report[r].fallback]
      <4>1. supportRow' = [supportRow EXCEPT ![r] = row]
        BY <2>3, <3>4 DEF Stamp
      <4>2. /\ row \in Row /\ row.discord = supportRow[r].discord /\ row.admin = supportRow[r].admin
            /\ row.topic = done
        BY <2>1 DEF Row
      <4>3. done => row.fallback = report[r].fallback
        <5>1. row.fallback = (done /\ report[r].fallback)
          BY <2>1 DEF Row
        <5> QED
          BY <2>1, <5>1
      <4> HIDE DEF row
      <4>4. <<InGroup(report[r].fallback), "details">> \in seen[r]
        BY <1>0, <3>1, <3>4 DEF SupportSound
      <4>5. SupportSound(rep, row, seen[r])
        BY <1>0, <3>1, <3>2, <3>4, <4>2, <4>3, <4>4 DEF SupportSound
      <4> QED
        BY <3>1, <4>1, <4>5, ReportMoves
    <3> QED
      BY <3>3, <3>4
  <2> QED
    BY <1>11, <2>2, <2>3 DEF markDelivered, done
<1>12. ASSUME NEW r \in Report, SupportRequestDies(r)  PROVE SupportInv'
  BY <1>2, <1>12 DEF SupportRequestDies
<1>13. ASSUME NEW r \in Report, EraseSupportRow(r)  PROVE SupportInv'
  <2>1. /\ supportRow' = [supportRow EXCEPT ![r] = NoRow] /\ report' = report /\ seen' = seen
        /\ supportRow[r].stands
    BY <1>13 DEF EraseSupportRow
  <2>2. NoRow \in Row /\ ~NoRow.discord /\ ~NoRow.topic /\ ~NoRow.admin /\ ~NoRow.stands
    BY DEF NoRow, Row
  <2>3. SupportSound(report[r], NoRow, seen[r])
    BY <1>0, <2>1, <2>2 DEF SupportSound
  <2> QED
    BY <2>1, <2>3, ReportMoves
<1>14. CASE UNCHANGED supportVars
  BY <1>14 DEF supportVars, SupportInv
<1> QED
  BY <1>3, <1>4, <1>5, <1>6, <1>7, <1>9, <1>10, <1>11, <1>12, <1>13, <1>14 DEF SupportNext

\* A row says no more than was seen: every stamp follows a message that was sent, to the
\* place it speaks of (DeliverDiscord, deliverToTopic, fallBackToGeneral, markDelivered).
LEMMA ReportsSound == SupportSpec => []DeliveredAsStamped
<1>1. ASSUME SupportInv, NEW r \in Report
      PROVE  /\ report[r].category = "kyc" => \A post \in seen[r] : post[1] = "admin"
             /\ \A post \in seen[r] : post[2] = "image" => post[1] \notin {"topic", "general"}
             /\ DeliveredToTeam(r) => \E place \in {"discord", "topic", "general", "admin"} : Saw(r, place)
             /\ supportFullyDelivered(r) =>
                  IF report[r].category = "kyc" THEN Saw(r, "admin")
                  ELSE Saw(r, "discord") /\ Saw(r, IF supportRow[r].fallback THEN "general" ELSE "topic")
  BY <1>1 DEF SupportInv, SupportSound, DeliveredToTeam, Saw, supportFullyDelivered, supportDiscordDelivered,
     supportTelegramDelivered, InGroup
<1>2. SupportInv => DeliveredAsStamped
  BY <1>1 DEF DeliveredAsStamped
<1> QED
  BY <1>2, SupportBegins, SupportStep, PTL DEF SupportSpec

-----------------------------------------------------------------------------
(* The bounty agent. What it acted on was asked for by whoever the message named: *)
(* a request keeps what it asked until it is signed, a challenge names the account *)
(* its asker had linked, and a report that is being answered was heard.            *)

\* A request for the administrators was begun by one; a signed one names an account.
RequestSound(r) == /\ r.pc \in {"idle", "asked", "signed"}
                   /\ r.pc # "idle" => r.who \in BountyUser /\ (r.route \in AdminRoute => r.admin)
                   /\ r.pc = "signed" => r.account \in GitHubId

RequestsSound == /\ gitHubOf \in [BountyUser -> GitHubId \cup {Unlinked}]
                 /\ relayed = [q \in RelayRequest |-> relayed[q]]
                 /\ \A q \in RelayRequest : RequestSound(relayed[q])

ChallengesSound == \A m \in challenges : <<m.nonce, m.account>> \in askedBy

LinksSound == \A g \in DOMAIN agentLinks.wallet :
                LET m == agentLinks.wallet[g]
                IN  m \in signedBy /\ m \in challenges /\ m.channel = "link" /\ m.account = g

ReceivingSound == /\ heard = [e \in BountyEvent |-> heard[e]]
                  /\ receiving.pc \in {"idle", "notify", "answer"}
                  /\ receiving.pc # "idle" => receiving.report \in BountyEvent \ UnknownKind
                  /\ receiving.pc = "answer" => heard[receiving.report] # {} \/ receiving.report \in failedOn

BountyInv == RequestsSound /\ ActedForAdmins /\ ChallengesSound /\ LinksSound /\ ReceivingSound /\ ReportsAnswered

LEMMA BountyInitSound == BountyInit => BountyInv
<1> SUFFICES ASSUME BountyInit PROVE BountyInv
  OBVIOUS
<1>1. RequestsSound
  BY DEF BountyInit, RequestsSound, RequestSound, NotRelaying
<1>2. ActedForAdmins
  BY DEF BountyInit, ActedForAdmins
<1>3. ChallengesSound /\ LinksSound
  BY DEF BountyInit, ChallengesSound, LinksSound
<1>4. ReceivingSound /\ ReportsAnswered
  BY DEF BountyInit, ReceivingSound, ReportsAnswered, NotReceiving
<1> QED
  BY <1>1, <1>2, <1>3, <1>4 DEF BountyInv

\* What a part of the state keeps while it rests.
LEMMA RelayRests == ASSUME BountyInv, UNCHANGED relayVars, UNCHANGED gitHubOf PROVE RequestsSound' /\ ActedForAdmins'
BY DEF BountyInv, RequestsSound, RequestSound, ActedForAdmins, relayVars

LEMMA WalletsRest == ASSUME BountyInv, UNCHANGED walletVars PROVE ChallengesSound' /\ LinksSound'
BY DEF BountyInv, ChallengesSound, LinksSound, walletVars

LEMMA ReportsRest == ASSUME BountyInv, UNCHANGED eventVars PROVE ReceivingSound' /\ ReportsAnswered'
BY DEF BountyInv, ReceivingSound, ReportsAnswered, eventVars

LEMMA RelinkedSound ==
  ASSUME BountyInv, NEW u \in BountyUser, NEW g \in GitHubId \cup {Unlinked}, Relinked(u, g) PROVE BountyInv'
<1>1. RequestsSound' /\ ActedForAdmins'
  BY DEF Relinked, BountyInv, RequestsSound, RequestSound, ActedForAdmins, relayVars
<1> QED
  BY <1>1, WalletsRest, ReportsRest DEF Relinked, BountyInv

\* One request that moves soundly.
LEMMA WalletRequestMoves ==
  ASSUME BountyInv, UNCHANGED gitHubOf, NEW q \in RelayRequest, NEW r, RequestSound(r), relayed' = [relayed EXCEPT ![q] = r]
  PROVE  RequestsSound'
<1>1. relayed' = [p \in RelayRequest |-> IF p = q THEN r ELSE relayed[p]]
  BY DEF BountyInv, RequestsSound
<1> QED
  BY <1>1 DEF BountyInv, RequestsSound, RequestSound

LEMMA BeginsSound ==
  ASSUME BountyInv, NEW q \in RelayRequest, NEW u \in BountyUser, NEW route, NEW registered, Begins(q, u, route, registered),
         route \in AdminRoute => RequireLiveRole(u)
  PROVE  BountyInv'
<1>1. PICK r : r = [pc |-> "asked", who |-> u, route |-> route, registered |-> registered,
                    admin |-> u \in bountyRole, account |-> Unlinked]
  OBVIOUS
<1>2. RequestSound(r)
  BY <1>1 DEF RequestSound, RequireLiveRole
<1>3. RequestsSound'
  BY <1>1, <1>2, WalletRequestMoves DEF Begins, worldVars
<1>4. ActedForAdmins'
  BY DEF Begins, ActedForAdmins, BountyInv
<1> QED
  BY <1>3, <1>4, WalletsRest, ReportsRest DEF Begins, BountyInv

LEMMA GithubForSound == ASSUME BountyInv, NEW q \in RelayRequest, githubFor(q) PROVE BountyInv'
<1>1. PICK was : was = relayed[q]
  OBVIOUS
<1>2. PICK r : r = IF gitHubOf[was.who] = Unlinked THEN NotRelaying
                   ELSE [was EXCEPT !.pc = "signed", !.account = gitHubOf[was.who]]
  OBVIOUS
<1>3. RequestSound(was) /\ was.pc = "asked"
  BY <1>1 DEF githubFor, BountyInv, RequestsSound
<1>4. gitHubOf[was.who] \in GitHubId \cup {Unlinked}
  BY <1>3 DEF RequestSound, BountyInv, RequestsSound
<1>5. RequestSound(r)
  <2>1. CASE gitHubOf[was.who] = Unlinked
    BY <1>2, <2>1 DEF RequestSound, NotRelaying
  <2>2. CASE gitHubOf[was.who] # Unlinked
    <3>1. r = [was EXCEPT !.pc = "signed", !.account = gitHubOf[was.who]]
      BY <1>2, <2>2
    <3>2. r.who = was.who /\ r.route = was.route /\ r.admin = was.admin
      BY <3>1
    <3> QED
      BY <1>3, <1>4, <2>2, <3>1, <3>2 DEF RequestSound
  <2> QED
    BY <2>1, <2>2
<1>6. relayed' = [relayed EXCEPT ![q] = r]
  BY <1>1, <1>2 DEF githubFor
<1>7. RequestsSound'
  BY <1>5, <1>6, WalletRequestMoves DEF githubFor, worldVars
<1> QED
  BY <1>7, WalletsRest, ReportsRest DEF githubFor, BountyInv, ActedForAdmins

LEMMA CallSound == ASSUME BountyInv, NEW q \in RelayRequest, call(q) \/ Unreachable(q) PROVE BountyInv'
<1>1. PICK was : was = relayed[q]
  OBVIOUS
<1>2. RequestSound(was) /\ was.pc = "signed"
  BY <1>1 DEF call, Unreachable, BountyInv, RequestsSound
<1>3. RequestSound(NotRelaying)
  BY DEF RequestSound, NotRelaying
<1>4. RequestsSound'
  BY <1>3, WalletRequestMoves DEF call, Unreachable, worldVars
<1>5. ActedForAdmins'
  <2>1. CASE call(q)
    <3>1. agentAct' = [channel |-> Channel(was.route), account |-> was.account, admin |-> was.admin]
      BY <1>1, <2>1 DEF call
    <3>2. Channel(was.route) = "admin" => was.route \in AdminRoute
      BY DEF Channel
    <3> QED
      BY <1>2, <3>1, <3>2 DEF ActedForAdmins, RequestSound
  <2>2. CASE Unreachable(q)
    BY <2>2 DEF Unreachable, BountyInv, ActedForAdmins
  <2> QED
    BY <2>1, <2>2
<1> QED
  BY <1>4, <1>5, WalletsRest, ReportsRest DEF call, Unreachable, BountyInv

LEMMA RelayNextSound == ASSUME BountyInv, RelayNext PROVE BountyInv'
<1>1. CASE Relinkings
  BY <1>1, RelinkedSound DEF Relinkings
<1>2. CASE VerificationChanges \/ \E u \in BountyUser : RoleChanges(u)
  BY <1>2, RelayRests, WalletsRest, ReportsRest DEF VerificationChanges, RoleChanges, BountyInv
<1>3. ASSUME NEW q \in RelayRequest, githubFor(q) \/ call(q) \/ Unreachable(q) PROVE BountyInv'
  BY <1>3, GithubForSound, CallSound
<1>4. ASSUME NEW q \in RelayRequest, NEW u \in BountyUser,
             \/ AsksAsAdmin(q, u) \/ AsksAsMaintainer(q, u) \/ MaintainerFundedPrepare(q, u)
             \/ AsksAsFunder(q, u) \/ AsksAsApplicant(q, u) \/ \E fails \in BOOLEAN : PostBountyRepo(q, u, fails)
      PROVE BountyInv'
  <2>1. CASE AsksAsAdmin(q, u) \/ \E fails \in BOOLEAN : PostBountyRepo(q, u, fails)
    BY <2>1, BeginsSound DEF AsksAsAdmin, PostBountyRepo
  <2>2. CASE \/ AsksAsMaintainer(q, u) \/ MaintainerFundedPrepare(q, u)
             \/ AsksAsFunder(q, u) \/ AsksAsApplicant(q, u)
    <3>1. MaintainerRoute \cap AdminRoute = {} /\ FundedRoute \cap AdminRoute = {} /\ ApplyRoute \cap AdminRoute = {}
      BY DEF AdminRoute, MaintainerRoute, FundedRoute, ApplyRoute
    <3>2. "prepare" \notin AdminRoute
      BY DEF AdminRoute
    <3> QED
      BY <2>2, <3>1, <3>2, BeginsSound DEF AsksAsMaintainer, MaintainerFundedPrepare, AsksAsFunder, AsksAsApplicant
  <2> QED
    BY <1>4, <2>1, <2>2
<1> QED
  BY <1>1, <1>2, <1>3, <1>4 DEF RelayNext

LEMMA HandsSound ==
  ASSUME BountyInv, NEW u \in BountyUser, NEW channel, NEW w, Hands(u, channel, gitHubOf[u], w) PROVE BountyInv'
<1>1. PICK m : m = [nonce |-> Cardinality(challenges), channel |-> channel, account |-> gitHubOf[u], wallet |-> w,
                    at |-> bountyClock]
  OBVIOUS
<1>2. challenges' = challenges \cup {m} /\ askedBy' = askedBy \cup {<<m.nonce, m.account>>}
  BY <1>1 DEF Hands
<1>3. ChallengesSound'
  BY <1>2 DEF ChallengesSound, BountyInv
<1>4. LinksSound'
  BY <1>2 DEF LinksSound, BountyInv, Hands
<1> QED
  BY <1>3, <1>4, RelayRests, ReportsRest DEF Hands, BountyInv, worldVars

LEMMA PostLinkSound == ASSUME BountyInv, NEW m \in challenges, PostLink(m) PROVE BountyInv'
<1>1. PICK links : links = [g \in DOMAIN agentLinks.wallet \cup {m.account} |->
                              IF g = m.account THEN m ELSE agentLinks.wallet[g]]
  OBVIOUS
<1>2. agentLinks'.wallet = links
  BY <1>1 DEF PostLink
<1>3. LinksSound'
  <2> SUFFICES ASSUME NEW g \in DOMAIN links
               PROVE  links[g] \in signedBy /\ links[g] \in challenges /\ links[g].channel = "link" /\ links[g].account = g
    BY <1>2 DEF LinksSound, PostLink
  <2>1. CASE g = m.account
    BY <1>1, <2>1 DEF PostLink
  <2>2. CASE g # m.account
    BY <1>1, <2>2 DEF BountyInv, LinksSound
  <2> QED
    BY <2>1, <2>2
<1> QED
  BY <1>3, RelayRests, ReportsRest DEF PostLink, BountyInv, ChallengesSound, worldVars

LEMMA WalletsNextSound == ASSUME BountyInv, WalletsNext PROVE BountyInv'
<1>1. CASE Relinkings
  BY <1>1, RelinkedSound DEF Relinkings
<1>2. CASE BountyTick
  BY <1>2, RelayRests, WalletsRest, ReportsRest DEF BountyTick, BountyInv
<1>3. ASSUME NEW u \in BountyUser, NEW w \in SolanaWallet, PostChallenge(u, w) \/ PostReadChallenge(u, w) PROVE BountyInv'
  BY <1>3, HandsSound DEF PostChallenge, PostReadChallenge
<1>4. ASSUME NEW m \in challenges, WalletSigns(m) PROVE BountyInv'
  <2>1. ChallengesSound' /\ LinksSound'
    BY <1>4 DEF WalletSigns, BountyInv, ChallengesSound, LinksSound
  <2> QED
    BY <1>4, <2>1, RelayRests, ReportsRest DEF WalletSigns, BountyInv, worldVars
<1>5. ASSUME NEW m \in challenges, PostLink(m) PROVE BountyInv'
  BY <1>5, PostLinkSound
<1> QED
  BY <1>1, <1>2, <1>3, <1>4, <1>5 DEF WalletsNext

\* A report goes to its answer once somebody heard of it or a query failed over it.
LEMMA AnsweringSound ==
  ASSUME BountyInv, NEW e \in BountyEvent \ UnknownKind, AnswerNext(e), UNCHANGED queue,
         heard' = [d \in BountyEvent |-> heard'[d]], heard'[e] # {} \/ e \in failedOn',
         \A d \in BountyEvent : heard[d] # {} => heard'[d] # {}, failedOn \subseteq failedOn'
  PROVE  ReceivingSound' /\ ReportsAnswered'
<1>1. ReportsAnswered'
  BY DEF BountyInv, ReportsAnswered
<1>2. receiving'.pc = "answer" /\ receiving'.report = e
  BY DEF AnswerNext
<1>3. ReceivingSound'
  BY <1>2 DEF ReceivingSound
<1> QED
  BY <1>1, <1>3

\* What is added to what became of one report takes nothing from the others.
LEMMA HeardGrows ==
  ASSUME BountyInv, NEW e \in BountyEvent, NEW outcome, heard' = [heard EXCEPT ![e] = @ \cup {outcome}]
  PROVE  /\ heard' = [d \in BountyEvent |-> heard'[d]] /\ heard'[e] # {}
         /\ \A d \in BountyEvent : heard[d] # {} => heard'[d] # {}
<1>1. heard = [d \in BountyEvent |-> heard[d]]
  BY DEF BountyInv, ReceivingSound
<1>2. heard' = [d \in BountyEvent |-> IF d = e THEN heard[d] \cup {outcome} ELSE heard[d]]
  BY <1>1
<1> QED
  BY <1>2

LEMMA ReportsNextSound == ASSUME BountyInv, ReportsNext PROVE BountyInv'
<1>1. CASE Relinkings
  BY <1>1, RelinkedSound DEF Relinkings
<1>a. UNCHANGED heard => /\ heard' = [d \in BountyEvent |-> heard'[d]]
                         /\ \A d \in BountyEvent : heard[d] # {} => heard'[d] # {}
  BY DEF BountyInv, ReceivingSound
<1>2. ASSUME NEW e \in BountyEvent, NEW fails \in BOOLEAN, Receive(e, fails) PROVE ReceivingSound' /\ ReportsAnswered'
  <2>1. e \in BountyEvent \ UnknownKind /\ UNCHANGED queue
    BY <1>2 DEF Receive, KnownKind
  <2>2. ASSUME NEW u, receiving' = [pc |-> "notify", report |-> e, to |-> u], UNCHANGED <<heard, failedOn>>
        PROVE  ReceivingSound' /\ ReportsAnswered'
    BY <2>1, <2>2 DEF BountyInv, ReceivingSound, ReportsAnswered
  <2>3. ASSUME AnswerNext(e), heard' = [heard EXCEPT ![e] = @ \cup {"nobody"}], UNCHANGED failedOn
        PROVE  ReceivingSound' /\ ReportsAnswered'
    BY <2>1, <2>3, HeardGrows, AnsweringSound
  <2>4. ASSUME AnswerNext(e), failedOn' = failedOn \cup {e}, UNCHANGED heard  PROVE ReceivingSound' /\ ReportsAnswered'
    BY <1>a, <2>1, <2>4, AnsweringSound
  <2>5. CASE fails
    BY <1>2, <2>4, <2>5 DEF Receive
  <2>6. CASE ~fails /\ Linked(e) # {}
    BY <1>2, <2>2, <2>6 DEF Receive, NotifyNext
  <2>7. CASE ~fails /\ Linked(e) = {}
    BY <1>2, <2>3, <2>7 DEF Receive
  <2> QED
    BY <2>5, <2>6, <2>7
<1>3. ASSUME NEW outcome, Notify(outcome) PROVE BountyInv'
  <2> PICK e : e = receiving.report
    OBVIOUS
  <2>1. e \in BountyEvent \ UnknownKind /\ AnswerNext(e) /\ UNCHANGED queue
    BY <1>3 DEF Notify, BountyInv, ReceivingSound
  <2>2. ASSUME failedOn' = failedOn \cup {e}, UNCHANGED heard PROVE ReceivingSound' /\ ReportsAnswered'
    BY <1>a, <2>1, <2>2, AnsweringSound
  <2>3. ASSUME heard' = [heard EXCEPT ![e] = @ \cup {outcome}], UNCHANGED failedOn PROVE ReceivingSound' /\ ReportsAnswered'
    BY <2>1, <2>3, HeardGrows, AnsweringSound
  <2>4. ReceivingSound' /\ ReportsAnswered'
    BY <1>3, <2>2, <2>3 DEF Notify
  <2> QED
    BY <1>3, <2>4, RelayRests, WalletsRest DEF Notify, BountyInv, worldVars
<1>4. ASSUME NEW lost \in BOOLEAN, Answered(lost) PROVE BountyInv'
  <2>1. ReceivingSound' /\ ReportsAnswered'
    BY <1>4 DEF Answered, BountyInv, ReceivingSound, ReportsAnswered, NotReceiving
  <2> QED
    BY <1>4, <2>1, RelayRests, WalletsRest DEF Answered, BountyInv, worldVars
<1>5. CASE ReceiveDies
  <2>1. ReceivingSound' /\ ReportsAnswered'
    BY <1>5 DEF ReceiveDies, BountyInv, ReceivingSound, ReportsAnswered, NotReceiving
  <2> QED
    BY <1>5, <2>1, RelayRests, WalletsRest DEF ReceiveDies, BountyInv, worldVars
<1>6. ASSUME NEW e \in BountyEvent, NEW fails \in BOOLEAN, Receive(e, fails) PROVE BountyInv'
  BY <1>2, <1>6, RelayRests, WalletsRest DEF Receive, BountyInv, worldVars
<1> QED
  BY <1>1, <1>3, <1>4, <1>5, <1>6 DEF ReportsNext

\* The agent acts for administrators who asked, links wallets over challenges the account's
\* holder asked for and the wallet signed, and forgets no report nobody heard of unless a
\* query failed over it.
LEMMA BountySound == BountySpec => [](ActedForAdmins /\ LinkedAsAsked /\ ReportsAnswered)
<1>1. BountyInv /\ [BountyNext]_bountyVars => BountyInv'
  <2>1. ASSUME BountyInv, UNCHANGED bountyVars PROVE BountyInv'
    BY <2>1, RelayRests, WalletsRest, ReportsRest DEF bountyVars, relayVars, walletVars, eventVars, BountyInv
  <2> QED
    BY <2>1, RelayNextSound, WalletsNextSound, ReportsNextSound DEF BountyNext
<1>2. BountyInv => ActedForAdmins /\ LinkedAsAsked /\ ReportsAnswered
  <2>1. ChallengesSound /\ LinksSound => LinkedAsAsked
    BY DEF ChallengesSound, LinksSound, LinkedAsAsked
  <2> QED
    BY <2>1 DEF BountyInv
<1> QED
  BY BountyInitSound, <1>1, <1>2, PTL DEF BountySpec

-----------------------------------------------------------------------------
(* The boards. One request computes at a time, so what it will store is no older *)
(* than what anybody was shown; and as long as the data stand, what it stored is *)
(* their ranking.                                                               *)

\* A ranking is a function of the merges that count.
MergesThatCount(window, now) == {r \in PullRequest : Counts(r, window, now)}

RankedPeople(merges) ==
  LET total == [k \in {AuthorKey[r] : r \in merges} |-> Cardinality({r \in merges : AuthorKey[r] = k})]
      ahead == [j, k \in DOMAIN total |-> total[j] > total[k] \/ (total[j] = total[k] /\ j < k)]
  IN  Placed(total, ahead)

LEMMA PeopleRanked == ASSUME NEW window, NEW now
                      PROVE  Contributors(window, now) = RankedPeople(MergesThatCount(window, now))
BY DEF Contributors, RankedPeople, MergesThatCount

LEMMA PeopleRankedNext == ASSUME NEW window, NEW now
                          PROVE  (Contributors(window, now) = RankedPeople(MergesThatCount(window, now)))'
BY DEF Contributors, RankedPeople, MergesThatCount

LEMMA RankingStands ==
  ASSUME UNCHANGED <<landed, listed>>, NEW window, NEW now
  PROVE  Contributors(window, now)' = Contributors(window, now)
<1>1. MergesThatCount(window, now)' = MergesThatCount(window, now)
  BY DEF MergesThatCount, Counts
<1>2. RankedPeople(MergesThatCount(window, now))' = RankedPeople(MergesThatCount(window, now))
  BY <1>1 DEF RankedPeople, Placed
<1> QED
  BY <1>2, PeopleRanked, PeopleRankedNext

NoOlder(s, version) == s \in DOMAIN shown => shown[s] <= version

\* The ranking of people as it was then, by data that have not changed since.
OfPeople(s, entries, version, since) ==
  s.kind = "people" /\ version = boardChanges => entries = Contributors(s.window, since)

QuerySound(q) ==
  /\ q.pc \in {"idle", "query"}
  /\ q.pc = "query" => /\ q.version \in Nat /\ q.version <= boardChanges /\ q.scope \in BoardScope
                       /\ NoOlder(q.scope, q.version)
                       /\ OfPeople(q.scope, q.entries, q.version, q.since)

StoredSound(s) ==
  /\ boards[s].version \in Nat /\ boards[s].version <= boardChanges
  /\ NoOlder(s, boards[s].version)
  /\ OfPeople(s, boards[s].entries, boards[s].version, boards[s].since)

BoardInv ==
  /\ boardChanges \in Nat /\ shown \in [BoardScope -> Nat]
  /\ \A s \in BoardScope : shown[s] <= boardChanges
  /\ visitor = [v \in Visitor |-> visitor[v]] /\ \A v \in Visitor : QuerySound(visitor[v])
  /\ \A u, v \in Visitor : Querying(u) /\ Querying(v) => u = v
  /\ IsFiniteSet(DOMAIN boards) /\ DOMAIN boards \subseteq BoardScope
  /\ \A s \in DOMAIN boards : StoredSound(s)
  /\ BoardsBounded

LEMMA BoardInitSound == BoardInit => BoardInv
<1> SUFFICES ASSUME BoardInit PROVE BoardInv
  OBVIOUS
<1>1. DOMAIN boards = {}
  BY DEF BoardInit
<1>2. IsFiniteSet(DOMAIN boards) /\ BoardsBounded
  BY <1>1, FS_EmptySet, LeaderboardAssumption DEF BoardsBounded
<1>3. \A v \in Visitor : visitor[v] = NoQuery /\ ~Querying(v)
  BY DEF BoardInit, NoQuery, Querying
<1> QED
  BY <1>1, <1>2, <1>3 DEF BoardInit, BoardInv, QuerySound, NoQuery

\* The data change: what was computed from the old is not of the new version.
LEMMA ChangeSound ==
  ASSUME BoardInv, boardChanges' = boardChanges + 1, UNCHANGED <<boards, visitor, shown>>
  PROVE  BoardInv'
<1>1. boardChanges \in Nat
  BY DEF BoardInv
<1>2. ASSUME NEW v \in Visitor PROVE QuerySound(visitor[v])'
  <2>1. PICK q : q = visitor[v]
    OBVIOUS
  <2>2. QuerySound(q)
    BY <2>1 DEF BoardInv
  <2>3. q.pc \in {"idle", "query"}
        /\ (q.pc = "query" => /\ q.version \in Nat /\ q.version < boardChanges' /\ q.scope \in BoardScope
                              /\ NoOlder(q.scope, q.version)')
    BY <1>1, <2>2 DEF QuerySound, NoOlder
  <2> QED
    BY <1>1, <2>1, <2>3 DEF QuerySound, OfPeople
<1>3. ASSUME NEW s \in DOMAIN boards PROVE StoredSound(s)'
  <2>1. StoredSound(s)
    BY DEF BoardInv
  <2>2. boards[s].version < boardChanges' /\ NoOlder(s, boards[s].version)'
    BY <1>1, <2>1 DEF StoredSound, NoOlder
  <2> QED
    BY <1>1, <2>1, <2>2 DEF StoredSound, OfPeople
<1>4. \A s \in BoardScope : shown'[s] <= boardChanges'
  BY <1>1 DEF BoardInv
<1> QED
  BY <1>1, <1>2, <1>3, <1>4 DEF BoardInv, Querying, BoardsBounded

\* While the data stand, a query, or what is stored, that keeps its place stays sound.
LEMMA QueryStands ==
  ASSUME BoardInv, BoardDataStands \/ UNCHANGED <<landed, listed, boardChanges>>, NEW q, QuerySound(q),
         q.pc = "query" => shown'[q.scope] = shown[q.scope] \/ shown'[q.scope] <= q.version,
         DOMAIN shown' = DOMAIN shown
  PROVE  QuerySound(q)'
<1>0. UNCHANGED <<landed, listed, boardChanges>>
  BY DEF BoardDataStands
<1>1. q.pc = "query" => Contributors(q.scope.window, q.since)' = Contributors(q.scope.window, q.since)
  BY <1>0, RankingStands
<1> QED
  BY <1>0, <1>1 DEF QuerySound, OfPeople, NoOlder

LEMMA StoredStands ==
  ASSUME BoardInv, BoardDataStands \/ UNCHANGED <<landed, listed, boardChanges>>, NEW s, StoredSound(s),
         boards'[s] = boards[s],
         shown'[s] = shown[s] \/ shown'[s] <= boards[s].version,
         DOMAIN shown' = DOMAIN shown
  PROVE  StoredSound(s)'
<1>0. UNCHANGED <<landed, listed, boardChanges>>
  BY DEF BoardDataStands
<1>1. Contributors(s.window, boards[s].since)' = Contributors(s.window, boards[s].since)
  BY <1>0, RankingStands
<1> QED
  BY <1>0, <1>1 DEF StoredSound, OfPeople, NoOlder

LEMMA TickSound == ASSUME BoardInv, BoardTick \/ UNCHANGED boardVars PROVE BoardInv'
<1>1. UNCHANGED <<landed, listed, boardChanges, boards, visitor, shown>>
  BY DEF BoardTick, boardVars
<1>2. \A v \in Visitor : QuerySound(visitor[v])'
  <2> SUFFICES ASSUME NEW v \in Visitor PROVE QuerySound(visitor[v])'
    OBVIOUS
  <2>1. PICK q : q = visitor[v]
    OBVIOUS
  <2>2. QuerySound(q)'
    BY <1>1, <2>1, QueryStands DEF BoardInv
  <2> QED
    BY <1>1, <2>1, <2>2 DEF QuerySound, NoOlder, OfPeople
<1>3. \A s \in DOMAIN boards : StoredSound(s)'
  BY <1>1, StoredStands DEF BoardInv
<1> QED
  BY <1>1, <1>2, <1>3 DEF BoardInv, Querying, BoardsBounded

\* What is not older than what was shown is the newest that was shown.
LEMMA NewestShown ==
  ASSUME shown \in [BoardScope -> Nat], NEW s \in BoardScope, NEW version \in Nat, NoOlder(s, version)
  PROVE  Showing(s, version) = [shown EXCEPT ![s] = version]
<1>1. version > shown[s] \/ shown[s] = version
  BY DEF NoOlder
<1> QED
  BY <1>1 DEF Showing

\* Whoever asks shows what is stored, or starts a query of the data as they are.
LEMMA AskSound == ASSUME BoardInv, NEW v \in Visitor, NEW s \in BoardScope, Ask(v, s) PROVE BoardInv'
<1>0. BoardDataStands /\ boards' = boards /\ ~Querying(v) /\ \A u \in Visitor : ~Querying(u)
  BY DEF Ask, Querying
<1>1. CASE s \in DOMAIN boards /\ shown' = Showing(s, boards[s].version) /\ UNCHANGED visitor
  <2>1. StoredSound(s)
    BY <1>1 DEF BoardInv
  <2>2. /\ shown' \in [BoardScope -> Nat] /\ \A t \in BoardScope : shown'[t] <= boardChanges
        /\ DOMAIN shown' = DOMAIN shown /\ \A t \in DOMAIN boards : shown'[t] = shown[t] \/ shown'[t] <= boards[t].version
    BY <1>1, <2>1, NewestShown DEF BoardInv, StoredSound
  <2>3. \A u \in Visitor : QuerySound(visitor[u])'
    BY <1>0, <1>1 DEF BoardInv, Querying, QuerySound
  <2>4. \A t \in DOMAIN boards : StoredSound(t)'
    BY <1>0, <2>2, StoredStands DEF BoardInv
  <2> QED
    BY <1>0, <1>1, <2>2, <2>3, <2>4 DEF BoardInv, Querying, BoardsBounded, BoardDataStands
<1>2. CASE visitor' = [visitor EXCEPT ![v] = [pc |-> "query", scope |-> s, since |-> clock,
                                              version |-> boardChanges, entries |-> Ranking(s, clock)]] /\ UNCHANGED shown
  <2>1. PICK q : q = [pc |-> "query", scope |-> s, since |-> clock, version |-> boardChanges, entries |-> Ranking(s, clock)]
    OBVIOUS
  <2>2. QuerySound(q)
    BY <2>1 DEF QuerySound, BoardInv, OfPeople, NoOlder, Ranking
  <2>3. QuerySound(q)'
    BY <1>0, <1>2, <2>2, QueryStands
  <2>4. visitor' = [u \in Visitor |-> IF u = v THEN q ELSE visitor[u]]
    BY <1>2, <2>1 DEF BoardInv
  <2>5. \A u \in Visitor : QuerySound(visitor[u])'
    <3>1. \A u \in Visitor \ {v} : visitor'[u].pc = "idle"
      BY <1>0, <2>4 DEF BoardInv, Querying, QuerySound
    <3> QED
      BY <2>3, <2>4, <3>1 DEF QuerySound
  <2>6. \A u, x \in Visitor : (Querying(u) /\ Querying(x))' => u = x
    BY <1>0, <2>4 DEF Querying
  <2>7. \A t \in DOMAIN boards : StoredSound(t)'
    BY <1>0, <1>2, StoredStands DEF BoardInv
  <2> QED
    BY <1>0, <1>2, <2>4, <2>5, <2>6, <2>7 DEF BoardInv, BoardsBounded, BoardDataStands
<1> QED
  BY <1>1, <1>2 DEF Ask

\* Nobody else was querying, and now nobody is.
LEMMA NobodyQueries ==
  ASSUME BoardInv, NEW v \in Visitor, Querying(v), visitor' = [visitor EXCEPT ![v] = NoQuery]
  PROVE  /\ visitor' = [u \in Visitor |-> visitor'[u]] /\ \A u \in Visitor : QuerySound(visitor[u])'
         /\ \A u, x \in Visitor : (Querying(u) /\ Querying(x))' => u = x
<1>1. visitor' = [u \in Visitor |-> IF u = v THEN NoQuery ELSE visitor[u]]
  BY DEF BoardInv
<1>2. \A u \in Visitor : visitor'[u].pc = "idle"
  BY <1>1 DEF BoardInv, NoQuery, Querying, QuerySound
<1> QED
  BY <1>1, <1>2 DEF Querying, QuerySound

\* A full cache drops one board, so there is room for the one that is stored.
LEMMA RoomForOne ==
  ASSUME BoardInv, NEW kept \in KeptBoards, NEW s
  PROVE  /\ kept \subseteq DOMAIN boards /\ IsFiniteSet(kept \cup {s}) /\ Cardinality(kept \cup {s}) <= MaxScopes
<1>1. IsFiniteSet(DOMAIN boards) /\ Cardinality(DOMAIN boards) \in Nat /\ Cardinality(DOMAIN boards) <= MaxScopes
      /\ MaxScopes \in Nat \ {0}
  BY FS_CardinalityType, LeaderboardAssumption DEF BoardInv, BoardsBounded
<1>2. kept \subseteq DOMAIN boards /\ IsFiniteSet(kept) /\ Cardinality(kept) \in Nat /\ Cardinality(kept) < MaxScopes
  <2>1. CASE Cardinality(DOMAIN boards) < MaxScopes
    BY <1>1, <2>1 DEF KeptBoards
  <2>2. CASE ~(Cardinality(DOMAIN boards) < MaxScopes)
    <3>1. PICK t \in DOMAIN boards : kept = DOMAIN boards \ {t}
      BY <2>2 DEF KeptBoards
    <3>2. kept \subseteq DOMAIN boards /\ IsFiniteSet(kept) /\ Cardinality(kept) = Cardinality(DOMAIN boards) - 1
      BY <1>1, <3>1, FS_RemoveElement
    <3>3. Cardinality(kept) \in Nat
      BY <3>2, FS_CardinalityType
    <3> HIDE <3>1
    <3> QED
      BY <1>1, <3>2, <3>3
  <2> QED
    BY <2>1, <2>2
<1>3. CASE s \in kept
  <2>1. kept \cup {s} = kept
    BY <1>3
  <2> QED
    BY <1>1, <1>2, <2>1
<1>4. CASE s \notin kept
  <2>1. IsFiniteSet(kept \cup {s}) /\ Cardinality(kept \cup {s}) = Cardinality(kept) + 1
    BY <1>2, <1>4, FS_AddElement
  <2> QED
    BY <1>1, <1>2, <2>1
<1> QED
  BY <1>3, <1>4

LEMMA QueryAnswersSound == ASSUME BoardInv, NEW v \in Visitor, QueryAnswers(v) PROVE BoardInv'
<1>0. PICK q, s : q = visitor[v] /\ s = q.scope
  OBVIOUS
<1>1. PICK kept \in KeptBoards :
        /\ boards' = [t \in kept \cup {s} |->
                        IF t = s THEN [entries |-> q.entries, version |-> q.version, since |-> q.since, fetchedAt |-> clock]
                        ELSE boards[t]]
        /\ shown' = Showing(s, q.version)
  BY <1>0 DEF QueryAnswers
<1>2. BoardDataStands /\ Querying(v) /\ visitor' = [visitor EXCEPT ![v] = NoQuery]
  BY DEF QueryAnswers
<1>3. QuerySound(q) /\ q.pc = "query"
  BY <1>0, <1>2 DEF BoardInv, Querying
<1>4. kept \subseteq DOMAIN boards /\ IsFiniteSet(kept \cup {s}) /\ Cardinality(kept \cup {s}) <= MaxScopes
  BY <1>1, RoomForOne
<1>5. /\ s \in BoardScope /\ shown' \in [BoardScope -> Nat] /\ DOMAIN shown' = DOMAIN shown
      /\ \A t \in BoardScope : shown'[t] <= boardChanges
      /\ shown'[s] = q.version /\ \A t \in BoardScope \ {s} : shown'[t] = shown[t]
  BY <1>0, <1>1, <1>3, NewestShown DEF BoardInv, QuerySound
<1>6. DOMAIN boards' = kept \cup {s} /\ boards'[s].version = q.version /\ boards'[s].entries = q.entries
      /\ boards'[s].since = q.since /\ \A t \in kept \ {s} : boards'[t] = boards[t]
  BY <1>1
<1>7. StoredSound(s)'
  <2>1. QuerySound(q)'
    <3>1. shown'[q.scope] <= q.version
      BY <1>0, <1>3, <1>5 DEF QuerySound, BoardInv
    <3> QED
      BY <1>2, <1>3, <1>5, <3>1, QueryStands
  <2>2. /\ q.version \in Nat /\ q.version <= boardChanges' /\ NoOlder(s, q.version)'
        /\ OfPeople(s, q.entries, q.version, q.since)'
    BY <1>0, <1>3, <2>1 DEF QuerySound
  <2> QED
    BY <1>6, <2>2 DEF StoredSound, OfPeople, NoOlder
<1>8. \A t \in DOMAIN boards' : StoredSound(t)'
  <2> SUFFICES ASSUME NEW t \in kept \ {s} PROVE StoredSound(t)'
    BY <1>6, <1>7
  <2>1. t \in BoardScope /\ StoredSound(t) /\ boards'[t] = boards[t] /\ shown'[t] = shown[t]
    BY <1>4, <1>5, <1>6 DEF BoardInv
  <2> QED
    BY <1>2, <1>5, <2>1, StoredStands
<1>9. DOMAIN boards' \subseteq BoardScope
  BY <1>4, <1>5, <1>6 DEF BoardInv
<1>10. BoardsBounded'
  BY <1>4, <1>6 DEF BoardsBounded
<1>11. boardChanges' = boardChanges /\ boardChanges \in Nat
  BY <1>2 DEF BoardInv, BoardDataStands
<1> QED
  BY <1>2, <1>4, <1>5, <1>6, <1>8, <1>9, <1>10, <1>11, NobodyQueries DEF BoardInv

LEMMA QueryFailsSound == ASSUME BoardInv, NEW v \in Visitor, QueryFails(v) PROVE BoardInv'
<1>1. BoardDataStands /\ Querying(v) /\ visitor' = [visitor EXCEPT ![v] = NoQuery] /\ boards' = boards
  BY DEF QueryFails
<1>2. PICK s : shown' = shown \/ (s \in DOMAIN boards /\ shown' = Showing(s, boards[s].version))
  BY DEF QueryFails
<1>3. \A t \in DOMAIN boards : StoredSound(t) /\ t \in BoardScope
  BY DEF BoardInv
<1>4. /\ shown' \in [BoardScope -> Nat] /\ DOMAIN shown' = DOMAIN shown
      /\ \A t \in BoardScope : shown'[t] <= boardChanges
      /\ \A t \in DOMAIN boards : shown'[t] = shown[t] \/ shown'[t] <= boards[t].version
  BY <1>2, <1>3, NewestShown DEF BoardInv, StoredSound
<1>5. \A t \in DOMAIN boards : StoredSound(t)'
  BY <1>1, <1>3, <1>4, StoredStands
<1>6. boardChanges' = boardChanges /\ boardChanges \in Nat
  BY <1>1 DEF BoardInv, BoardDataStands
<1> QED
  BY <1>1, <1>4, <1>5, <1>6, NobodyQueries DEF BoardInv, BoardsBounded

\* Nobody sees a board go back in time, the cache keeps its ceiling, and a badge and a board
\* of the same data agree.
LEMMA BoardsSound == BoardSpec => [](BoardsAdvance /\ BoardsBounded /\ BadgeAgrees)
<1>1. BoardInv /\ [BoardNext]_boardVars => BoardInv'
  <2> SUFFICES ASSUME BoardInv, [BoardNext]_boardVars PROVE BoardInv'
    OBVIOUS
  <2>1. CASE BoardTick \/ UNCHANGED boardVars
    BY <2>1, TickSound
  <2>2. ASSUME NEW r, NEW as, PullRequestEnds(r, as) PROVE BoardInv'
    BY <2>2, ChangeSound DEF PullRequestEnds, BoardChange
  <2>3. ASSUME NEW h, RepositoryChanges(h) PROVE BoardInv'
    BY <2>3, ChangeSound DEF RepositoryChanges, BoardChange
  <2>4. ASSUME NEW v \in Visitor, QueryAnswers(v) \/ QueryFails(v) \/ \E s \in BoardScope : Ask(v, s) PROVE BoardInv'
    BY <2>4, QueryAnswersSound, QueryFailsSound, AskSound
  <2> QED
    BY <2>1, <2>2, <2>3, <2>4 DEF BoardNext
<1>2. BoardInv => BoardsAdvance /\ BoardsBounded /\ BadgeAgrees
  <2> SUFFICES ASSUME BoardInv PROVE BoardsAdvance /\ BadgeAgrees
    BY DEF BoardInv
  <2>1. BoardsAdvance
    BY DEF BoardInv, BoardsAdvance, StoredSound, NoOlder
  <2>2. BadgeAgrees
    <3> SUFFICES ASSUME NEW s \in DOMAIN boards, s.kind = "people", boards[s].version = boardChanges,
                        NEW r \in PullRequest, NEW fails \in BOOLEAN
                 PROVE  rankPositionOrNil(AuthorKey[r], s.window, boards[s].since, fails)
                          = IF ~fails /\ AuthorKey[r] \in DOMAIN boards[s].entries
                              THEN boards[s].entries[AuthorKey[r]] ELSE Unranked
      BY DEF BadgeAgrees
    <3>1. boards[s].entries = Contributors(s.window, boards[s].since)
      BY DEF BoardInv, StoredSound, OfPeople
    <3> QED
      BY <3>1 DEF rankPositionOrNil, Position
  <2> QED
    BY <2>1, <2>2
<1> QED
  BY BoardInitSound, <1>1, <1>2, PTL DEF BoardSpec

-----------------------------------------------------------------------------
(* Salts. Every row that opens anywhere, stored, loaded or listed, holds the one   *)
(* salt that was issued for the settlement it is bound to; which that was may be   *)
(* known to nobody any more.                                                      *)

IssuedRow(issued, r) == r.row = "live" => r.bound \in SaltedTree /\ r.salt = issued[r.bound] /\ r.salt # NoSalt

Issues(issued) ==
  /\ issued \in [SaltedTree -> Nat \cup {NoSalt}]
  /\ \A t \in SaltedTree : issued[t] # NoSalt => issued[t] < generated
  /\ \A t, u \in SaltedTree : issued[t] = issued[u] /\ issued[t] # NoSalt => t = u
  /\ \A t \in SaltedTree : wrapped[t].row = "absent" => issued[t] = NoSalt

RowsIssued(issued) ==
  /\ \A t \in SaltedTree : IssuedRow(issued, wrapped[t])
  /\ \A h \in Hashing : IssuedRow(issued, hashing[h].loaded)
  /\ \A x \in Rotation : \A t \in DOMAIN rotation[x].left : IssuedRow(issued, rotation[x].left[t])

HashedIssued(issued) == \A t \in SaltedTree : identities[t] \subseteq {issued[t]} \ {NoSalt}

StoredShapes ==
  /\ generated \in Nat /\ wrapped = [t \in SaltedTree |-> wrapped[t]]
  /\ identities = [t \in SaltedTree |-> identities[t]]
  /\ destroyed \subseteq SaltedTree /\ \A t \in destroyed : wrapped[t] = Tombstone

HashingShapes ==
  /\ hashing = [h \in Hashing |-> hashing[h]]
  /\ \A h \in Hashing : hashing[h].pc # "idle" => hashing[h].of \in SaltedTree
  /\ \A h \in Hashing : hashing[h] = [pc |-> hashing[h].pc, of |-> hashing[h].of, key |-> hashing[h].key,
                                      loaded |-> hashing[h].loaded]

RotationShapes ==
  /\ rotation = [x \in Rotation |-> rotation[x]]
  /\ \A x \in Rotation : rotation[x] = [pc |-> rotation[x].pc, from |-> rotation[x].from, to |-> rotation[x].to,
                                        left |-> rotation[x].left]
  /\ \A x \in Rotation : DOMAIN rotation[x].left \subseteq SaltedTree

SaltShapes == StoredShapes /\ HashingShapes /\ RotationShapes

SaltInv == SaltShapes /\ \E issued : Issues(issued) /\ RowsIssued(issued) /\ HashedIssued(issued)

LEMMA SaltInitSound == SaltInit => SaltInv
<1> SUFFICES ASSUME SaltInit PROVE SaltInv
  OBVIOUS
<1>1. SaltShapes
  BY DEF SaltInit, SaltShapes, StoredShapes, HashingShapes, RotationShapes, NotHashing, NotRotating
<1>2. PICK issued : issued = [t \in SaltedTree |-> NoSalt]
  OBVIOUS
<1>3. Issues(issued)
  BY <1>2 DEF SaltInit, Issues
<1>4. RowsIssued(issued)
  BY DEF SaltInit, RowsIssued, IssuedRow, NoSaltRow, NotHashing, NotRotating
<1>5. HashedIssued(issued)
  BY DEF SaltInit, HashedIssued
<1> QED
  BY <1>1, <1>3, <1>4, <1>5 DEF SaltInv

\* A step that neither issues nor hashes, and whose rows were there before, keeps it all.
LEMMA RowsMove ==
  ASSUME SaltInv, SaltShapes', UNCHANGED <<generated, identities>>,
         \A t \in SaltedTree : wrapped'[t].row = "absent" => wrapped[t].row = "absent",
         ASSUME NEW issued, RowsIssued(issued) PROVE RowsIssued(issued)'
  PROVE  SaltInv'
<1>1. PICK issued : Issues(issued) /\ RowsIssued(issued) /\ HashedIssued(issued)
  BY DEF SaltInv
<1>2. Issues(issued)' /\ HashedIssued(issued)'
  BY <1>1 DEF Issues, HashedIssued
<1> QED
  BY <1>1, <1>2 DEF SaltInv

LEMMA CreateSaltSound ==
  ASSUME SaltInv, NEW h \in Hashing, NEW t \in SaltedTree, NEW k, CreateSalt(h, t, k) PROVE SaltInv'
<1>1. PICK q : q = [NotHashing EXCEPT !.pc = "created", !.of = t, !.key = k]
  OBVIOUS
<1>2. q = [pc |-> "created", of |-> t, key |-> k, loaded |-> NoSaltRow]
  BY <1>1 DEF NotHashing
<1>3. hashing' = [g \in Hashing |-> IF g = h THEN q ELSE hashing[g]]
  BY <1>1 DEF CreateSalt, SaltInv, SaltShapes, StoredShapes, HashingShapes, RotationShapes
<1>4. PICK issued : Issues(issued) /\ RowsIssued(issued) /\ HashedIssued(issued)
  BY DEF SaltInv
<1>5. generated \in Nat /\ generated' = generated + 1
      /\ UNCHANGED <<destroyed, identities, rotation>>
  BY DEF CreateSalt, SaltInv, SaltShapes, StoredShapes, HashingShapes, RotationShapes
<1>6. ASSUME NEW i, RowsIssued(i)
      PROVE  \A g \in Hashing : IssuedRow(i, hashing'[g].loaded)
  BY <1>2, <1>3, <1>6 DEF RowsIssued, IssuedRow, NoSaltRow
<1>7. /\ hashing' = [g \in Hashing |-> hashing'[g]]
      /\ \A g \in Hashing : hashing'[g].pc # "idle" => hashing'[g].of \in SaltedTree
      /\ \A g \in Hashing : hashing'[g] = [pc |-> hashing'[g].pc, of |-> hashing'[g].of, key |-> hashing'[g].key,
                                           loaded |-> hashing'[g].loaded]
  BY <1>2, <1>3 DEF SaltInv, SaltShapes, StoredShapes, HashingShapes, RotationShapes
<1>8. CASE wrapped[t].row # "absent"
  <2>1. wrapped' = wrapped
    BY <1>8 DEF CreateSalt
  <2>2. SaltShapes'
    <3>1. HashingShapes'
      BY <1>7 DEF HashingShapes
    <3>2. StoredShapes' /\ RotationShapes'
      BY <1>5, <2>1 DEF SaltInv, SaltShapes, StoredShapes, RotationShapes
    <3> QED
      BY <3>1, <3>2 DEF SaltShapes
  <2>3. Issues(issued)' /\ HashedIssued(issued)'
    BY <1>4, <1>5, <2>1 DEF Issues, HashedIssued
  <2>4. RowsIssued(issued)'
    BY <1>4, <1>5, <1>6, <2>1 DEF RowsIssued
  <2> QED
    BY <2>2, <2>3, <2>4 DEF SaltInv
<1>9. CASE wrapped[t].row = "absent"
  <2>1. PICK r : r = [row |-> "live", salt |-> generated, key |-> k, bound |-> t]
    OBVIOUS
  <2>2. wrapped' = [u \in SaltedTree |-> IF u = t THEN r ELSE wrapped[u]]
    BY <1>9, <2>1 DEF CreateSalt, SaltInv, SaltShapes, StoredShapes, HashingShapes, RotationShapes
  <2>3. PICK now : now = [issued EXCEPT ![t] = generated]
    OBVIOUS
  <2>4. /\ issued[t] = NoSalt /\ now[t] = generated /\ generated # NoSalt
        /\ \A u \in SaltedTree \ {t} : now[u] = issued[u]
    BY <1>4, <1>5, <1>9, <2>3, EventSaltAssumption DEF Issues
  <2>5. Issues(now)'
    <3>1. \A u \in SaltedTree : issued[u] # NoSalt => issued[u] \in Nat /\ issued[u] < generated
      BY <1>4 DEF Issues
    <3>2. now \in [SaltedTree -> Nat \cup {NoSalt}]
      BY <1>4, <1>5, <2>3 DEF Issues
    <3>3. \A u \in SaltedTree : now[u] # NoSalt => now[u] < generated'
      BY <1>5, <2>4, <3>1
    <3>4. \A u, v \in SaltedTree : now[u] = now[v] /\ now[u] # NoSalt => u = v
      BY <1>4, <1>5, <2>4, <3>1 DEF Issues
    <3>5. \A u \in SaltedTree : wrapped'[u].row = "absent" => now[u] = NoSalt
      BY <1>4, <2>1, <2>2, <2>4 DEF Issues
    <3> QED
      BY <3>2, <3>3, <3>4, <3>5 DEF Issues
  <2>6. ASSUME NEW row, IssuedRow(issued, row) PROVE IssuedRow(now, row)
    BY <2>4, <2>6 DEF IssuedRow
  <2>7. RowsIssued(now)
    BY <1>4, <2>6 DEF RowsIssued
  <2>8. RowsIssued(now)'
    <3>1. \A u \in SaltedTree : IssuedRow(now, wrapped'[u])
      BY <2>1, <2>2, <2>4, <2>7 DEF RowsIssued, IssuedRow
    <3> QED
      BY <1>5, <1>6, <2>7, <3>1 DEF RowsIssued
  <2>9. HashedIssued(now)'
    BY <1>4, <1>5, <2>4 DEF HashedIssued
  <2>10. SaltShapes'
    <3>1. t \notin destroyed
      BY <1>9 DEF SaltInv, SaltShapes, StoredShapes, HashingShapes, RotationShapes, Tombstone, NoSaltRow
    <3>2. HashingShapes'
      BY <1>7 DEF HashingShapes
    <3>3. StoredShapes'
      BY <1>5, <2>2, <3>1 DEF SaltInv, SaltShapes, StoredShapes
    <3>4. RotationShapes'
      BY <1>5 DEF SaltInv, SaltShapes, RotationShapes
    <3> QED
      BY <3>2, <3>3, <3>4 DEF SaltShapes
  <2> QED
    BY <2>5, <2>8, <2>9, <2>10 DEF SaltInv
<1> QED
  BY <1>8, <1>9

LEMMA LoadSaltSound == ASSUME SaltInv, NEW h \in Hashing, LoadSalt(h) PROVE SaltInv'
<1>1. PICK q : q = hashing[h]
  OBVIOUS
<1>2. PICK r : r = IF wrapped[q.of].row = "live" THEN [q EXCEPT !.pc = "loaded", !.loaded = wrapped[q.of]] ELSE NotHashing
  OBVIOUS
<1>3. hashing' = [g \in Hashing |-> IF g = h THEN r ELSE hashing[g]]
      /\ UNCHANGED <<wrapped, generated, destroyed, identities, rotation>>
  BY <1>1, <1>2 DEF LoadSalt, SaltInv, SaltShapes, StoredShapes, HashingShapes, RotationShapes
<1>4. q = [pc |-> q.pc, of |-> q.of, key |-> q.key, loaded |-> q.loaded] /\ q.of \in SaltedTree
  BY <1>1 DEF LoadSalt, SaltInv, SaltShapes, StoredShapes, HashingShapes, RotationShapes
<1>5. r \in {NotHashing, [pc |-> "loaded", of |-> q.of, key |-> q.key, loaded |-> wrapped[q.of]]}
  BY <1>2, <1>4
<1>6. /\ r = [pc |-> r.pc, of |-> r.of, key |-> r.key, loaded |-> r.loaded]
      /\ r.pc # "idle" => r.of \in SaltedTree
      /\ r.loaded \in {NoSaltRow, wrapped[q.of]}
  BY <1>4, <1>5 DEF NotHashing
<1>7. SaltShapes'
  BY <1>3, <1>6 DEF SaltInv, SaltShapes, StoredShapes, HashingShapes, RotationShapes
<1>8. ASSUME NEW issued, RowsIssued(issued) PROVE RowsIssued(issued)'
  <2>1. IssuedRow(issued, r.loaded)
    BY <1>4, <1>6, <1>8 DEF RowsIssued, IssuedRow, NoSaltRow
  <2> QED
    BY <1>3, <1>8, <2>1 DEF RowsIssued
<1> QED
  BY <1>3, <1>7, <1>8, RowsMove

LEMMA HashesSound == ASSUME SaltInv, NEW h \in Hashing, IdentityHashes(h) PROVE SaltInv'
<1>1. PICK q : q = hashing[h]
  OBVIOUS
<1>2. hashing' = [g \in Hashing |-> IF g = h THEN NotHashing ELSE hashing[g]]
      /\ UNCHANGED <<wrapped, generated, destroyed, rotation>>
  BY DEF IdentityHashes, SaltInv, SaltShapes, StoredShapes, HashingShapes, RotationShapes
<1>3. PICK issued : Issues(issued) /\ RowsIssued(issued) /\ HashedIssued(issued)
  BY DEF SaltInv
<1>4. /\ identities' = [t \in SaltedTree |-> identities'[t]]
      /\ \A t \in SaltedTree :
           \/ identities'[t] = identities[t]
           \/ t = q.of /\ Opens(q.loaded, q.key, t) /\ identities'[t] = identities[t] \cup {q.loaded.salt}
  BY <1>1 DEF IdentityHashes, SaltInv, SaltShapes, StoredShapes, HashingShapes, RotationShapes
<1>5. HashedIssued(issued)'
  <2>1. IssuedRow(issued, q.loaded)
    BY <1>1, <1>3 DEF RowsIssued
  <2> QED
    BY <1>3, <1>4, <2>1 DEF HashedIssued, IssuedRow, Opens
<1>6. RowsIssued(issued)'
  BY <1>2, <1>3 DEF RowsIssued, IssuedRow, NotHashing, NoSaltRow
<1>7. Issues(issued)'
  BY <1>2, <1>3 DEF Issues
<1>8. SaltShapes'
  BY <1>2, <1>4 DEF SaltInv, SaltShapes, StoredShapes, HashingShapes, RotationShapes, NotHashing
<1> QED
  BY <1>5, <1>6, <1>7, <1>8 DEF SaltInv

LEMMA RowSound ==
  ASSUME SaltInv, NEW t \in SaltedTree, Destroy(t) \/ \E u \in SaltedTree : CopyRow(t, u) PROVE SaltInv'
<1>1. PICK u \in SaltedTree, r \in {Tombstone, wrapped[t]} :
         /\ wrapped' = [wrapped EXCEPT ![u] = r] /\ wrapped[u].row = "live" /\ r.row # "absent"
         /\ (destroyed' = destroyed \/ (destroyed' = destroyed \cup {u} /\ r = Tombstone))
  <2>1. CASE Destroy(t)
    <3>1. wrapped' = [wrapped EXCEPT ![t] = Tombstone] /\ wrapped[t].row = "live" /\ destroyed' = destroyed \cup {t}
      BY <2>1 DEF Destroy
    <3>2. Tombstone.row # "absent"
      BY DEF Tombstone, NoSaltRow
    <3> QED
      BY <3>1, <3>2
  <2>2. CASE \E u \in SaltedTree : CopyRow(t, u)
    <3>1. PICK u \in SaltedTree : CopyRow(t, u)
      BY <2>2
    <3>2. wrapped' = [wrapped EXCEPT ![u] = wrapped[t]] /\ wrapped[u].row = "live" /\ wrapped[t].row # "absent"
          /\ destroyed' = destroyed
      BY <3>1 DEF CopyRow
    <3> QED
      BY <3>2
  <2> QED
    BY <2>1, <2>2
<1>2. UNCHANGED <<generated, identities, hashing, rotation>>
  BY DEF Destroy, CopyRow
<1>3. wrapped' = [v \in SaltedTree |-> IF v = u THEN r ELSE wrapped[v]]
  BY <1>1 DEF SaltInv, SaltShapes, StoredShapes, HashingShapes, RotationShapes
<1>4. SaltShapes'
  <2>1. u \notin destroyed
    BY <1>1 DEF SaltInv, SaltShapes, StoredShapes, HashingShapes, RotationShapes, Tombstone, NoSaltRow
  <2> QED
    BY <1>1, <1>2, <1>3, <2>1 DEF SaltInv, SaltShapes, StoredShapes, HashingShapes, RotationShapes
<1>5. ASSUME NEW issued, RowsIssued(issued) PROVE RowsIssued(issued)'
  BY <1>1, <1>2, <1>3, <1>5 DEF RowsIssued, IssuedRow, Tombstone, NoSaltRow
<1> QED
  BY <1>1, <1>2, <1>3, <1>4, <1>5, RowsMove

LEMMA ListSaltsSound ==
  ASSUME SaltInv, NEW x \in Rotation, RotationOver(x) \/ \E from, to \in WrapKey : ListSalts(x, from, to) PROVE SaltInv'
<1>1. PICK r : /\ rotation' = [rotation EXCEPT ![x] = r]
               /\ r = [pc |-> r.pc, from |-> r.from, to |-> r.to, left |-> r.left]
               /\ DOMAIN r.left \subseteq SaltedTree /\ \A t \in DOMAIN r.left : r.left[t] = wrapped[t]
  <2>1. CASE RotationOver(x)
    <3>1. rotation' = [rotation EXCEPT ![x] = NotRotating]
      BY <2>1 DEF RotationOver, RotationEnds
    <3>2. /\ NotRotating = [pc |-> NotRotating.pc, from |-> NotRotating.from, to |-> NotRotating.to, left |-> NotRotating.left]
          /\ DOMAIN NotRotating.left = {}
      BY DEF NotRotating
    <3> QED
      BY <3>1, <3>2
  <2>2. CASE \E from, to \in WrapKey : ListSalts(x, from, to)
    <3>1. PICK from, to : ListSalts(x, from, to)
      BY <2>2
    <3>2. PICK live, r : /\ live = {s \in SaltedTree : wrapped[s].row = "live"}
                         /\ r = [pc |-> "listed", from |-> from, to |-> to, left |-> [t \in live |-> wrapped[t]]]
      OBVIOUS
    <3>3. rotation' = [rotation EXCEPT ![x] = r]
      BY <3>1, <3>2 DEF ListSalts
    <3>4. r = [pc |-> r.pc, from |-> r.from, to |-> r.to, left |-> r.left] /\ DOMAIN r.left = live
          /\ \A t \in live : r.left[t] = wrapped[t]
      BY <3>2
    <3> QED
      BY <3>2, <3>3, <3>4
  <2> QED
    BY <2>1, <2>2
<1>2. UNCHANGED <<wrapped, generated, destroyed, identities, hashing>>
  BY DEF RotationOver, ListSalts
<1>3. rotation' = [y \in Rotation |-> IF y = x THEN r ELSE rotation[y]]
  BY <1>1 DEF SaltInv, SaltShapes, StoredShapes, HashingShapes, RotationShapes
<1>4. SaltShapes'
  BY <1>1, <1>2, <1>3 DEF SaltInv, SaltShapes, StoredShapes, HashingShapes, RotationShapes
<1>5. ASSUME NEW issued, RowsIssued(issued) PROVE RowsIssued(issued)'
  BY <1>1, <1>2, <1>3, <1>5 DEF RowsIssued
<1> QED
  BY <1>2, <1>4, <1>5, RowsMove

LEMMA RotateSound == ASSUME SaltInv, NEW x \in Rotation, NEW t \in SaltedTree, Rotate(x, t) PROVE SaltInv'
<1>1. PICK was : was = rotation[x]
  OBVIOUS
<1>2. was = [pc |-> was.pc, from |-> was.from, to |-> was.to, left |-> was.left]
      /\ DOMAIN was.left \subseteq SaltedTree /\ t \in DOMAIN was.left
      /\ UNCHANGED <<generated, destroyed, identities, hashing>>
  BY <1>1 DEF Rotate, SaltInv, SaltShapes, StoredShapes, HashingShapes, RotationShapes
<1>3. CASE ~Opens(was.left[t], was.from, t)
  <2>1. wrapped' = wrapped /\ rotation' = [y \in Rotation |-> IF y = x THEN NotRotating ELSE rotation[y]]
    BY <1>1, <1>3 DEF Rotate, RotationEnds, SaltInv, SaltShapes, StoredShapes, HashingShapes, RotationShapes
  <2>2. SaltShapes'
    BY <1>2, <2>1 DEF SaltInv, SaltShapes, StoredShapes, HashingShapes, RotationShapes, NotRotating
  <2>3. ASSUME NEW issued, RowsIssued(issued) PROVE RowsIssued(issued)'
    BY <1>2, <2>1, <2>3 DEF RowsIssued, NotRotating
  <2> QED
    BY <1>2, <2>1, <2>2, <2>3, RowsMove
<1>4. CASE Opens(was.left[t], was.from, t)
  <2>1. PICK r : r = [was EXCEPT !.left = [s \in DOMAIN @ \ {t} |-> @[s]]]
    OBVIOUS
  <2>2. /\ r = [pc |-> r.pc, from |-> r.from, to |-> r.to, left |-> r.left]
        /\ DOMAIN r.left \subseteq DOMAIN was.left /\ \A s \in DOMAIN r.left : r.left[s] = was.left[s]
    BY <1>2, <2>1
  <2>3. rotation' = [y \in Rotation |-> IF y = x THEN r ELSE rotation[y]]
    BY <1>1, <1>4, <2>1 DEF Rotate, SaltInv, SaltShapes, StoredShapes, HashingShapes, RotationShapes
  <2>4. PICK row : row = [row |-> "live", salt |-> was.left[t].salt, key |-> was.to, bound |-> t]
    OBVIOUS
  <2>5. \/ wrapped' = wrapped
        \/ wrapped[t].row # "destroyed" /\ wrapped' = [u \in SaltedTree |-> IF u = t THEN row ELSE wrapped[u]]
    BY <1>1, <1>4, <2>4 DEF Rotate, Rewrapped, SaltInv, SaltShapes, StoredShapes, HashingShapes, RotationShapes
  <2>6. SaltShapes'
    <3>1. wrapped[t].row # "destroyed" => t \notin destroyed
      BY DEF SaltInv, SaltShapes, StoredShapes, HashingShapes, RotationShapes, Tombstone, NoSaltRow
    <3> QED
      BY <1>1, <1>2, <2>2, <2>3, <2>5, <3>1 DEF SaltInv, SaltShapes, StoredShapes, HashingShapes, RotationShapes
  <2>7. ASSUME NEW issued, RowsIssued(issued) PROVE RowsIssued(issued)'
    <3>1. IssuedRow(issued, row)
      BY <1>1, <1>2, <1>4, <2>4, <2>7 DEF RowsIssued, IssuedRow, Opens
    <3>2. \A s \in DOMAIN r.left : IssuedRow(issued, r.left[s])
      BY <1>1, <2>2, <2>7 DEF RowsIssued
    <3> QED
      BY <1>2, <2>3, <2>5, <2>7, <3>1, <3>2 DEF RowsIssued
  <2>8. \A u \in SaltedTree : wrapped'[u].row = "absent" => wrapped[u].row = "absent"
    BY <2>4, <2>5
  <2> QED
    BY <1>2, <2>6, <2>7, <2>8, RowsMove
<1> QED
  BY <1>3, <1>4

\* One salt for each settlement, whatever overlaps; and what was destroyed stays so.
LEMMA SaltsSound == SaltSpec => []SaltsStand
<1>1. SaltInv /\ [SaltNext]_saltVars => SaltInv'
  <2> SUFFICES ASSUME SaltInv, [SaltNext]_saltVars PROVE SaltInv'
    OBVIOUS
  <2>1. ASSUME UNCHANGED saltVars PROVE SaltInv'
    <3>1. UNCHANGED <<wrapped, generated, destroyed, identities, hashing, rotation>>
      BY <2>1 DEF saltVars
    <3>2. SaltShapes'
      BY <3>1 DEF SaltInv, SaltShapes, StoredShapes, HashingShapes, RotationShapes
    <3>3. ASSUME NEW issued, RowsIssued(issued) PROVE RowsIssued(issued)'
      BY <3>1, <3>3 DEF RowsIssued
    <3> QED
      BY <3>1, <3>2, <3>3, RowsMove
  <2> QED
    BY <2>1, LoadSaltSound, HashesSound, CreateSaltSound, RowSound, ListSaltsSound, RotateSound DEF SaltNext
<1>2. SaltInv => SaltsStand
  <2> SUFFICES ASSUME SaltInv PROVE SaltsStand
    OBVIOUS
  <2>1. PICK issued : Issues(issued) /\ HashedIssued(issued)
    BY DEF SaltInv
  <2>2. \A t \in SaltedTree : Cardinality(identities[t]) <= 1
    <3> SUFFICES ASSUME NEW t \in SaltedTree PROVE Cardinality(identities[t]) <= 1
      OBVIOUS
    <3>1. identities[t] = {} \/ identities[t] = {issued[t]}
      BY <2>1 DEF HashedIssued
    <3>2. Cardinality({}) = 0 /\ Cardinality({issued[t]}) = 1
      BY FS_EmptySet, FS_Singleton
    <3> QED
      BY <3>1, <3>2
  <2>3. \A t, u \in SaltedTree : t # u => identities[t] \cap identities[u] = {}
    BY <2>1 DEF HashedIssued, Issues
  <2> QED
    BY <2>2, <2>3 DEF SaltInv, SaltShapes, StoredShapes, HashingShapes, RotationShapes, SaltsStand
<1> QED
  BY SaltInitSound, <1>1, <1>2, PTL DEF SaltSpec

-----------------------------------------------------------------------------
(* Identity sessions. A session Didit still has is somebody's, or is named by a   *)
(* record that no pass is about to erase: a record is only up for erasure when    *)
(* another stands for its session, or when Didit has let go of it. A start may    *)
(* lose its own session, or the one it writes over.                               *)

Standing(k) == \/ resetRecord[k].age = "fresh"
               \/ resetRecord[k].age = "old" /\ \A x \in RetentionPass : k \notin resetPass[x].erase

NamedStanding(s) == \/ s \in replaced \/ \E p \in Person : sessionOf[p] = s \/ <<p, s>> \in starting
                    \/ \E k \in ResetRecord : resetRecord[k].session = s /\ Standing(k)

PassSound(pass) ==
  /\ pass = [on |-> pass.on, left |-> pass.left, erase |-> pass.erase]
  /\ pass.left \cup pass.erase \subseteq {k \in ResetRecord : resetRecord[k].age \in {"old", "gone"}}

SessionInv ==
  /\ NoSession \notin atDidit
  /\ starting \subseteq Person \X ({NoSession} \cup DiditSession)
  /\ sessionOf = [p \in Person |-> sessionOf[p]]
  /\ resetRecord = [k \in ResetRecord |-> resetRecord[k]]
  /\ \A k \in ResetRecord : resetRecord[k] = [session |-> resetRecord[k].session, age |-> resetRecord[k].age]
  /\ resetPass = [x \in RetentionPass |-> resetPass[x]]
  /\ \A x \in RetentionPass : PassSound(resetPass[x])
  /\ \A s \in atDidit : NamedStanding(s)

LEMMA ResetsInitSound == ResetsInit => SessionInv
<1> SUFFICES ASSUME ResetsInit PROVE SessionInv
  OBVIOUS
<1>0. starting = {}
  BY DEF ResetsInit
<1>1. \A k \in ResetRecord : /\ resetRecord[k] = [session |-> resetRecord[k].session, age |-> resetRecord[k].age]
                             /\ resetRecord[k] = NoReset \/ resetRecord[k].age \in {"fresh", "old"}
  BY DEF ResetsInit, NoReset
<1>2. \A x \in RetentionPass : resetPass[x] = NoResetPass
  BY DEF ResetsInit
<1>3. \A s \in atDidit : NamedStanding(s)
  <2> SUFFICES ASSUME NEW s \in atDidit, ~\E p \in Person : sessionOf[p] = s
               PROVE  \E k \in ResetRecord : resetRecord[k].session = s /\ Standing(k)
    BY DEF NamedStanding
  <2>1. PICK k \in ResetRecord : resetRecord[k].session = s /\ s # NoSession
    BY DEF ResetsInit
  <2>2. resetRecord[k].age \in {"fresh", "old"}
    <3>1. resetRecord[k] # NoReset
      BY <2>1 DEF NoReset
    <3> QED
      BY <1>1, <3>1
  <2> QED
    BY <1>2, <2>1, <2>2 DEF Standing, NoResetPass
<1>4. \A x \in RetentionPass : PassSound(resetPass[x])
  BY <1>2 DEF PassSound, NoResetPass
<1> QED
  BY <1>0, <1>1, <1>3, <1>4 DEF SessionInv, ResetsInit

\* A start changes no record and no pass.
LEMMA StartMoves ==
  ASSUME SessionInv, UNCHANGED <<resetRecord, resetPass>>, NoSession \notin atDidit',
         starting' \subseteq Person \X ({NoSession} \cup DiditSession), sessionOf' = [p \in Person |-> sessionOf'[p]],
         \A s \in atDidit' : \/ s \in atDidit /\ NamedStanding(s)'
                           \/ s \in replaced' \/ \E p \in Person : sessionOf'[p] = s \/ <<p, s>> \in starting'
  PROVE  SessionInv'
BY DEF SessionInv, PassSound, NamedStanding

LEMMA CreateSessionSound ==
  ASSUME SessionInv, NEW p \in Person, NEW s \in DiditSession, CreateSession(p, s) PROVE SessionInv'
<1>1. /\ starting' = starting \cup {<<p, s>>} /\ atDidit' = atDidit \cup {s}
      /\ UNCHANGED <<sessionOf, replaced, resetRecord, resetPass>>
  BY DEF CreateSession, RecordsStand
<1>2. \A z \in atDidit : NamedStanding(z)'
  BY <1>1 DEF SessionInv, NamedStanding, Standing
<1>3. starting' \subseteq Person \X ({NoSession} \cup DiditSession) /\ NoSession \notin atDidit'
  BY <1>1, RetentionAssumption DEF SessionInv
<1>4. sessionOf' = [q \in Person |-> sessionOf'[q]]
  BY <1>1 DEF SessionInv
<1> QED
  BY <1>1, <1>2, <1>3, <1>4, StartMoves

LEMMA FindsGoneSound ==
  ASSUME SessionInv, NEW p \in Person, FindsGone(p) PROVE SessionInv'
<1>1. starting' = starting \cup {<<p, NoSession>>} /\ UNCHANGED <<atDidit, sessionOf, replaced, resetRecord, resetPass>>
  BY DEF FindsGone, RecordsStand
<1>2. \A z \in atDidit : NamedStanding(z)'
  BY <1>1 DEF SessionInv, NamedStanding, Standing
<1> QED
  BY <1>1, <1>2, StartMoves DEF SessionInv

LEMMA StoreSessionSound ==
  ASSUME SessionInv, NEW p \in Person, NEW s, StoreSession(p, s) PROVE SessionInv'
<1>1. /\ starting' = starting \ {<<p, s>>} /\ sessionOf' = [q \in Person |-> IF q = p THEN s ELSE sessionOf[q]]
      /\ replaced' = replaced \cup {sessionOf[p]} /\ UNCHANGED <<atDidit, resetRecord, resetPass>>
  BY DEF StoreSession, RecordsStand, SessionInv
<1>2. \A z \in atDidit : NamedStanding(z)'
  <2> SUFFICES ASSUME NEW z \in atDidit PROVE NamedStanding(z)'
    OBVIOUS
  <2>1. NamedStanding(z)
    BY DEF SessionInv
  <2>2. CASE \E q \in Person : sessionOf[q] = z \/ <<q, z>> \in starting
    BY <1>1, <2>2 DEF NamedStanding
  <2>3. CASE z \in replaced \/ \E k \in ResetRecord : resetRecord[k].session = z /\ Standing(k)
    BY <1>1, <2>3 DEF NamedStanding, Standing
  <2> QED
    BY <2>1, <2>2, <2>3 DEF NamedStanding
<1>3. sessionOf' = [q \in Person |-> sessionOf'[q]]
  BY <1>1
<1> QED
  BY <1>1, <1>2, <1>3, StartMoves DEF SessionInv

LEMMA StartDiesSound ==
  ASSUME SessionInv, NEW p \in Person, NEW s, StartDies(p, s) PROVE SessionInv'
<1>1. /\ starting' = starting \ {<<p, s>>} /\ replaced' = replaced \cup {s}
      /\ UNCHANGED <<atDidit, sessionOf, resetRecord, resetPass>>
  BY DEF StartDies, RecordsStand
<1>2. \A z \in atDidit : NamedStanding(z)'
  BY <1>1 DEF SessionInv, NamedStanding, Standing
<1> QED
  BY <1>1, <1>2, StartMoves DEF SessionInv

LEMMA DeletedAtDiditSound ==
  ASSUME SessionInv, NEW s, DeletedAtDidit(s) PROVE SessionInv'
<1>1. atDidit' = atDidit \ {s} /\ UNCHANGED <<starting, replaced, sessionOf, resetRecord, resetPass>>
  BY DEF DeletedAtDidit, RecordsStand, NobodyStarts
<1>2. \A z \in atDidit : NamedStanding(z)'
  BY <1>1 DEF SessionInv, NamedStanding, Standing
<1> QED
  BY <1>1, <1>2, StartMoves DEF SessionInv

LEMMA ResetVerificationSound ==
  ASSUME SessionInv, NEW p \in Person, NEW k \in ResetRecord, ResetVerification(p, k) PROVE SessionInv'
<1>1. PICK r : r = [session |-> sessionOf[p], age |-> "fresh"]
  OBVIOUS
<1>2. /\ resetRecord[k] = NoReset
      /\ resetRecord' = [l \in ResetRecord |-> IF l = k THEN r ELSE resetRecord[l]]
      /\ sessionOf' = [q \in Person |-> IF q = p THEN NoSession ELSE sessionOf[q]]
      /\ UNCHANGED <<atDidit, resetPass, starting, replaced>>
  BY <1>1 DEF ResetVerification, SessionInv, NobodyStarts
<1>3. \A z \in atDidit : NamedStanding(z)'
  <2> SUFFICES ASSUME NEW z \in atDidit PROVE NamedStanding(z)'
    OBVIOUS
  <2>1. NamedStanding(z)
    BY DEF SessionInv
  <2>2. CASE z = sessionOf[p]
    BY <1>1, <1>2, <2>2 DEF NamedStanding, Standing
  <2>3. CASE z # sessionOf[p] /\ (z \in replaced \/ \E q \in Person : sessionOf[q] = z \/ <<q, z>> \in starting)
    BY <1>2, <2>3 DEF NamedStanding
  <2>4. ASSUME NEW l \in ResetRecord, resetRecord[l].session = z, Standing(l) PROVE NamedStanding(z)'
    <3>1. l # k
      BY <1>2, <2>4 DEF Standing, NoReset
    <3> QED
      BY <1>2, <2>4, <3>1 DEF NamedStanding, Standing
  <2> QED
    BY <2>1, <2>2, <2>3, <2>4 DEF NamedStanding
<1>4. \A x \in RetentionPass : PassSound(resetPass[x])'
  <2>1. resetRecord[k].age \notin {"old", "gone"}
    BY <1>2 DEF NoReset
  <2> QED
    BY <1>2, <2>1 DEF SessionInv, PassSound
<1>5. \A l \in ResetRecord : resetRecord'[l] = [session |-> resetRecord'[l].session, age |-> resetRecord'[l].age]
  BY <1>1, <1>2 DEF SessionInv
<1> QED
  BY <1>2, <1>3, <1>4, <1>5 DEF SessionInv

LEMMA ResetRecordAgesSound ==
  ASSUME SessionInv, NEW k \in ResetRecord, ResetRecordAges(k) PROVE SessionInv'
<1>1. PICK r : r = [resetRecord[k] EXCEPT !.age = "old"]
  OBVIOUS
<1>2. /\ resetRecord[k].age = "fresh"
      /\ resetRecord' = [l \in ResetRecord |-> IF l = k THEN r ELSE resetRecord[l]]
      /\ UNCHANGED <<atDidit, sessionOf, resetPass, starting, replaced>>
  BY <1>1 DEF ResetRecordAges, SessionInv, NobodyStarts
<1>3. r = [session |-> resetRecord[k].session, age |-> "old"]
  BY <1>1 DEF SessionInv
<1>4. \A x \in RetentionPass : k \notin resetPass[x].erase /\ k \notin resetPass[x].left
  BY <1>2 DEF SessionInv, PassSound
<1>5. \A x \in RetentionPass : PassSound(resetPass[x])'
  BY <1>2, <1>3 DEF SessionInv, PassSound
<1>6. \A z \in atDidit : NamedStanding(z)'
  <2> SUFFICES ASSUME NEW z \in atDidit PROVE NamedStanding(z)'
    OBVIOUS
  <2>1. NamedStanding(z)
    BY DEF SessionInv
  <2> QED
    BY <1>2, <1>3, <1>4, <2>1 DEF NamedStanding, Standing
<1>7. \A l \in ResetRecord : resetRecord'[l] = [session |-> resetRecord'[l].session, age |-> resetRecord'[l].age]
  BY <1>2, <1>3 DEF SessionInv
<1> QED
  BY <1>2, <1>5, <1>6, <1>7 DEF SessionInv

\* A pass that goes on to another sound one, whose new erasures others stand for.
LEMMA PassMoves ==
  ASSUME SessionInv, NEW x \in RetentionPass, NEW pass, ResetPassGoes(x, pass), PassSound(pass),
         UNCHANGED <<sessionOf, resetRecord>>, NobodyStarts, atDidit' \subseteq atDidit,
         \A s \in atDidit' : \A k \in pass.erase \ resetPass[x].erase :
           resetRecord[k].session = s =>
             \/ \E p \in Person : sessionOf[p] = s
             \/ \E l \in ResetRecord : resetRecord[l].session = s /\ resetRecord[l].age = "fresh"
  PROVE  SessionInv'
<1>1. resetPass' = [y \in RetentionPass |-> IF y = x THEN pass ELSE resetPass[y]]
  BY DEF ResetPassGoes, SessionInv
<1>2. \A y \in RetentionPass : PassSound(resetPass[y])'
  BY <1>1 DEF SessionInv, PassSound
<1> USE DEF NobodyStarts
<1>3. ASSUME NEW s \in atDidit' PROVE NamedStanding(s)'
  <2>1. NamedStanding(s)
    BY DEF SessionInv
  <2>2. ASSUME NEW k \in ResetRecord, resetRecord[k].session = s, Standing(k) PROVE NamedStanding(s)'
    <3>1. CASE k \in pass.erase \ resetPass[x].erase
      BY <2>2, <3>1 DEF NamedStanding, Standing
    <3>2. CASE k \notin pass.erase \ resetPass[x].erase
      BY <1>1, <2>2, <3>2 DEF NamedStanding, Standing
    <3> QED
      BY <3>1, <3>2
  <2> QED
    BY <2>1, <2>2 DEF NamedStanding
<1> QED
  BY <1>1, <1>2, <1>3 DEF SessionInv

LEMMA SelectSound ==
  ASSUME SessionInv, NEW x \in RetentionPass, selectResetRecords(x) PROVE SessionInv'
<1>1. PICK due : due = {k \in ResetRecord : resetRecord[k].age = "old"}
  OBVIOUS
<1>2. PICK pass : pass = [on |-> TRUE, left |-> {k \in due : needsDidit(k)}, erase |-> {k \in due : ~needsDidit(k)}]
  OBVIOUS
<1>3. ResetPassGoes(x, pass) /\ UNCHANGED <<atDidit, sessionOf, resetRecord>> /\ NobodyStarts
  BY <1>1, <1>2 DEF selectResetRecords
<1>4. PassSound(pass)
  <2>1. pass.left \subseteq due /\ pass.erase \subseteq due /\ pass = [on |-> pass.on, left |-> pass.left, erase |-> pass.erase]
    BY <1>2
  <2> QED
    BY <1>1, <2>1 DEF PassSound
<1>5. ASSUME NEW s \in atDidit, NEW k \in pass.erase, resetRecord[k].session = s
      PROVE  \/ \E p \in Person : sessionOf[p] = s
             \/ \E l \in ResetRecord : resetRecord[l].session = s /\ resetRecord[l].age = "fresh"
  <2>1. ~needsDidit(k) /\ s # NoSession
    BY <1>2, <1>5 DEF SessionInv
  <2> QED
    BY <1>5, <2>1 DEF needsDidit, stillUsed
<1> QED
  BY <1>3, <1>4, <1>5, PassMoves

LEMMA DeleteSound ==
  ASSUME SessionInv, NEW x \in RetentionPass, NEW k, NEW answer, DeleteDiditSession(x, k, answer) PROVE SessionInv'
<1>1. PICK pass : pass = [resetPass[x] EXCEPT !.left = @ \ {k}, !.erase = IF answer = "done" THEN @ \cup {k} ELSE @]
  OBVIOUS
<1>2. /\ k \in resetPass[x].left /\ ResetPassGoes(x, pass) /\ UNCHANGED <<sessionOf, resetRecord>> /\ NobodyStarts
      /\ atDidit' = IF answer = "failed" THEN atDidit ELSE atDidit \ {resetRecord[k].session}
  BY <1>1 DEF DeleteDiditSession
<1>3. PassSound(resetPass[x])
  BY DEF SessionInv
<1>4. pass.on = resetPass[x].on /\ pass.left = resetPass[x].left \ {k}
      /\ pass.erase = (IF answer = "done" THEN resetPass[x].erase \cup {k} ELSE resetPass[x].erase)
      /\ pass = [on |-> pass.on, left |-> pass.left, erase |-> pass.erase]
  BY <1>1, <1>3 DEF PassSound
<1>5. PassSound(pass)
  BY <1>2, <1>3, <1>4 DEF PassSound
<1>6. atDidit' \subseteq atDidit
  BY <1>2
<1>7. \A l \in pass.erase \ resetPass[x].erase : l = k /\ answer = "done"
  BY <1>4
<1>8. answer = "done" => resetRecord[k].session \notin atDidit'
  BY <1>2
<1> QED
  BY <1>2, <1>5, <1>6, <1>7, <1>8, PassMoves

LEMMA PurgeSound ==
  ASSUME SessionInv, NEW x \in RetentionPass, purgeResetRecords(x) PROVE SessionInv'
<1>1. /\ resetPass' = [y \in RetentionPass |-> IF y = x THEN NoResetPass ELSE resetPass[y]]
      /\ resetRecord' = [k \in ResetRecord |-> IF k \in resetPass[x].erase THEN [resetRecord[k] EXCEPT !.age = "gone"]
                                               ELSE resetRecord[k]]
      /\ UNCHANGED <<atDidit, sessionOf, starting, replaced>>
  BY DEF purgeResetRecords, ResetPassGoes, SessionInv, NobodyStarts
<1>2. \A k \in ResetRecord :
        /\ resetRecord'[k] = [session |-> resetRecord'[k].session, age |-> resetRecord'[k].age]
        /\ resetRecord'[k].session = resetRecord[k].session
        /\ resetRecord'[k].age = IF k \in resetPass[x].erase THEN "gone" ELSE resetRecord[k].age
  BY <1>1 DEF SessionInv
<1>3. \A y \in RetentionPass : PassSound(resetPass[y])'
  <2>1. \A y \in RetentionPass : PassSound(resetPass[y])
    BY DEF SessionInv
  <2>2. \A k \in ResetRecord : resetRecord[k].age \in {"old", "gone"} => resetRecord'[k].age \in {"old", "gone"}
    BY <1>2
  <2>3. PassSound(NoResetPass)'
    BY DEF PassSound, NoResetPass
  <2>4. \A y \in RetentionPass : PassSound(resetPass[y])' \/ resetPass'[y] = NoResetPass
    BY <1>1, <2>1, <2>2 DEF PassSound
  <2> QED
    BY <2>3, <2>4 DEF PassSound
<1>4. ASSUME NEW s \in atDidit PROVE NamedStanding(s)'
  <2>1. NamedStanding(s)
    BY DEF SessionInv
  <2>2. ASSUME NEW k \in ResetRecord, resetRecord[k].session = s, Standing(k) PROVE NamedStanding(s)'
    <3>1. k \notin resetPass[x].erase
      BY <2>2 DEF Standing, SessionInv, PassSound
    <3>2. Standing(k)'
      BY <1>1, <1>2, <2>2, <3>1 DEF Standing, NoResetPass
    <3> QED
      BY <1>2, <2>2, <3>2 DEF NamedStanding
  <2> QED
    BY <1>1, <2>1, <2>2 DEF NamedStanding
<1> QED
  BY <1>1, <1>2, <1>3, <1>4 DEF SessionInv

LEMMA ResetPassDiesSound ==
  ASSUME SessionInv, NEW x \in RetentionPass, ResetPassDies(x) PROVE SessionInv'
<1>1. PassSound(NoResetPass) /\ NoResetPass.erase = {}
  BY DEF PassSound, NoResetPass
<1> QED
  BY <1>1, PassMoves DEF ResetPassDies

\* Neither a reset nor a pass forgets a session, whatever Didit answered, whoever died and
\* however many passes ran at once.
LEMMA SessionsSound == RetentionSpec => []SessionsNamed
<1>1. SessionInv /\ [ResetRecordsNext \/ PayoutRecordsNext]_retentionVars => SessionInv'
  <2> SUFFICES ASSUME SessionInv, [ResetRecordsNext \/ PayoutRecordsNext]_retentionVars PROVE SessionInv'
    OBVIOUS
  <2>1. ASSUME UNCHANGED resetVars PROVE SessionInv'
    BY <2>1 DEF resetVars, SessionInv, PassSound, NamedStanding, Standing
  <2>2. CASE ResetRecordsNext
    BY <2>2, CreateSessionSound, FindsGoneSound, StoreSessionSound, StartDiesSound, DeletedAtDiditSound, ResetVerificationSound, ResetRecordAgesSound, SelectSound, DeleteSound, PurgeSound,
       ResetPassDiesSound DEF ResetRecordsNext
  <2>3. CASE PayoutRecordsNext
    BY <2>1, <2>3 DEF PayoutRecordsNext, EraseAccount, PayoutProceeds, YearsPass, planPayoutRecords, purgePayoutRecords,
       ResetsStand
  <2> QED
    BY <2>1, <2>2, <2>3 DEF retentionVars
<1>2. SessionInv => SessionsNamed
  BY DEF SessionInv, SessionsNamed, NamedStanding, Standing
<1>3. RetentionInit => SessionInv
  BY ResetsInitSound DEF RetentionInit
<1> QED
  BY <1>1, <1>2, <1>3, PTL DEF RetentionSpec

-----------------------------------------------------------------------------
(* Payout records of erased accounts. A plan holds for as long as it waits: what   *)
(* it selected is still there, the report of a payment goes only with its line,    *)
(* and a line only with the statement that names it.                               *)

RowsShaped ==
  /\ document \subseteq Person
  /\ payoutRow = [t \in RecordTable |-> [p \in Person |-> payoutRow[t][p]]]
  /\ Lines \in RecordTable => \A p \in Person : payoutRow[Lines][p] \in {"held", "payable", "gone"}
  /\ Reports \in RecordTable => \A p \in Person :
       \/ payoutRow[Reports][p] = "none"
       \/ /\ payoutRow[Reports][p] \in {"recent", "old", "gone"}
          /\ Lines \in RecordTable /\ payoutRow[Lines][p] \in {"payable", "gone"}

PlanShaped ==
  /\ payoutPass = [rows |-> payoutPass.rows, tombs |-> payoutPass.tombs, refused |-> FALSE]
  /\ payoutPass.rows \subseteq RecordTable \X Person
  /\ payoutPass.tombs \subseteq tombs

PlanStillThere ==
  \A t \in RecordTable \ {Statements}, p \in Person : <<t, p>> \in payoutPass.rows => payoutRow[t][p] # "gone"

PlanOfTheStatement ==
  \A p \in Person : <<Statements, p>> \in payoutPass.rows =>
    /\ Lines \in RecordTable
    /\ \A q \in Person : q \in payoutPass.tombs /\ payoutRow[Lines][q] \in {"held", "payable"} => <<Lines, q>> \in payoutPass.rows

PlanTogether ==
  \A p \in Person :
    /\ <<Reports, p>> \in payoutPass.rows =>
         Lines \in RecordTable /\ (<<Lines, p>> \in payoutPass.rows \/ payoutRow[Lines][p] = "gone")
    /\ <<Lines, p>> \in payoutPass.rows => \A q \in Person : <<Statements, q>> \in payoutPass.rows

PayoutInv == /\ RowsShaped /\ PlanShaped /\ PlanStillThere /\ PlanOfTheStatement /\ PlanTogether
             /\ RecordsGoTogether

LEMMA PayoutsBegin == RetentionInit => PayoutInv
<1> SUFFICES ASSUME PayoutsInit PROVE PayoutInv
  BY DEF RetentionInit
<1>1. \A t \in RecordTable, p \in Person : payoutRow[t][p] = FirstStatus(t)
  BY DEF PayoutsInit
<1>2. RowsShaped
  BY <1>1 DEF RowsShaped, PayoutsInit, FirstStatus, Lines, Reports
<1>3. payoutPass.rows = {} /\ payoutPass.tombs = {} /\ PlanShaped
  BY DEF PayoutsInit, NoPlan, PlanShaped
<1>4. RecordsGoTogether
  BY <1>1, <1>2, <1>3 DEF RecordsGoTogether, PlanShaped, PayoutsInit, NoPlan, Status, FirstStatus, Lines, Reports
<1> QED
  BY <1>2, <1>3, <1>4 DEF PayoutInv, PlanStillThere, PlanOfTheStatement, PlanTogether

LEMMA PayoutsStay == ASSUME PayoutInv, UNCHANGED payoutVars PROVE PayoutInv'
BY DEF PayoutInv, payoutVars, RowsShaped, PlanShaped, PlanStillThere, PlanOfTheStatement, PlanTogether,
       RecordsGoTogether, Status

LEMMA EraseAccountKeepsRecords == ASSUME PayoutInv, NEW p \in Person, EraseAccount(p) PROVE PayoutInv'
BY DEF EraseAccount, PayoutInv, RowsShaped, PlanShaped, PlanStillThere, PlanOfTheStatement, PlanTogether,
       RecordsGoTogether, Status

\* One row moves on, and not to its end; a line moves on only for who is not erased.
RowMoves(t, p, to) ==
  /\ payoutRow' = [u \in RecordTable |-> [q \in Person |-> IF u = t /\ q = p THEN to ELSE payoutRow[u][q]]]
  /\ payoutRow[t][p] # "gone" /\ to \in {"recent", "failed", "payable"}
  /\ t = Lines => p \notin tombs /\ payoutRow[t][p] = "held" /\ to = "payable"
  /\ t = Reports => to = "recent" /\ Lines \in RecordTable /\ payoutRow[Lines][p] = "payable"

LEMMA RowMovesOn ==
  ASSUME PayoutInv, NEW p \in Person, PayoutProceeds(p)
  PROVE  /\ \E t \in RecordTable, to \in {"recent", "failed", "payable"} : RowMoves(t, p, to)
         /\ UNCHANGED <<tombs, document, payoutPass>>
<1>1. ASSUME NEW t, NEW to, t \in RecordTable, RowGoes(t, p, to)
      PROVE  payoutRow' = [u \in RecordTable |-> [q \in Person |-> IF u = t /\ q = p THEN to ELSE payoutRow[u][q]]]
  BY <1>1 DEF RowGoes, PayoutInv, RowsShaped
<1>2. UNCHANGED <<tombs, document, payoutPass>>
  BY DEF PayoutProceeds
<1>3. CASE \E t \in RecordTable : payoutRow[t][p] \in {"open", "failed"} /\ RowGoes(t, p, "recent")
  <2>1. PICK t \in RecordTable : payoutRow[t][p] \in {"open", "failed"} /\ RowGoes(t, p, "recent")
    BY <1>3
  <2>2. t # Lines /\ t # Reports
    BY <2>1 DEF PayoutInv, RowsShaped
  <2>3. RowMoves(t, p, "recent")
    BY <1>1, <2>1, <2>2 DEF RowMoves
  <2> QED
    BY <1>2, <2>3
<1>4. CASE Legs \in RecordTable /\ payoutRow[Legs][p] = "open" /\ RowGoes(Legs, p, "failed")
  <2>1. RowMoves(Legs, p, "failed")
    BY <1>1, <1>4 DEF RowMoves, Legs, Lines, Reports
  <2> QED
    BY <1>2, <1>4, <2>1
<1>5. CASE Lines \in RecordTable /\ p \notin tombs /\ payoutRow[Lines][p] = "held" /\ RowGoes(Lines, p, "payable")
  <2>1. RowMoves(Lines, p, "payable")
    BY <1>1, <1>5 DEF RowMoves, Lines, Reports
  <2> QED
    BY <1>2, <1>5, <2>1
<1>6. CASE /\ {Lines, Reports} \subseteq RecordTable /\ payoutRow[Lines][p] = "payable" /\ payoutRow[Reports][p] = "none"
           /\ RowGoes(Reports, p, "recent")
  <2>1. RowMoves(Reports, p, "recent")
    BY <1>1, <1>6 DEF RowMoves, Lines, Reports
  <2> QED
    BY <1>2, <1>6, <2>1
<1> QED
  BY <1>3, <1>4, <1>5, <1>6 DEF PayoutProceeds

LEMMA PayoutProceedsKeepsRecords == ASSUME PayoutInv, NEW p \in Person, PayoutProceeds(p) PROVE PayoutInv'
<1>1. PICK t \in RecordTable : \E to \in {"recent", "failed", "payable"} : RowMoves(t, p, to)
  BY RowMovesOn
<1>2. PICK to \in {"recent", "failed", "payable"} : RowMoves(t, p, to)
  BY <1>1
<1>3. UNCHANGED <<tombs, document, payoutPass>>
  BY RowMovesOn
<1>4. \A u \in RecordTable, q \in Person : payoutRow'[u][q] = IF u = t /\ q = p THEN to ELSE payoutRow[u][q]
  BY <1>2 DEF RowMoves
<1>5. \A u \in RecordTable, q \in Person : payoutRow'[u][q] = "gone" <=> payoutRow[u][q] = "gone"
  BY <1>2, <1>4 DEF RowMoves
<1>6. RowsShaped'
  <2>1. payoutRow' = [u \in RecordTable |-> [q \in Person |-> payoutRow'[u][q]]]
    BY <1>2 DEF RowMoves
  <2>2. Lines \in RecordTable => \A q \in Person : payoutRow'[Lines][q] \in {"held", "payable", "gone"}
    BY <1>2, <1>4 DEF RowMoves, PayoutInv, RowsShaped
  <2>3. Lines \in RecordTable => \A q \in Person : payoutRow[Lines][q] \in {"payable", "gone"} => payoutRow'[Lines][q] \in {"payable", "gone"}
    BY <1>2, <1>4 DEF RowMoves
  <2>4. Reports \in RecordTable => \A q \in Person :
          \/ payoutRow'[Reports][q] = "none"
          \/ /\ payoutRow'[Reports][q] \in {"recent", "old", "gone"}
             /\ Lines \in RecordTable /\ payoutRow'[Lines][q] \in {"payable", "gone"}
    BY <1>2, <1>4, <2>3 DEF RowMoves, PayoutInv, RowsShaped
  <2> QED
    BY <1>3, <2>1, <2>2, <2>4 DEF PayoutInv, RowsShaped
<1>7. PlanShaped' /\ PlanStillThere' /\ PlanTogether'
  <2>1. PlanShaped' /\ PlanStillThere'
    BY <1>3, <1>5 DEF PayoutInv, PlanShaped, PlanStillThere
  <2>2. \A q \in Person : <<Reports, q>> \in payoutPass.rows => Lines \in RecordTable
    BY DEF PayoutInv, PlanTogether
  <2>3. PlanTogether'
    BY <1>3, <1>5, <2>2 DEF PayoutInv, PlanTogether
  <2> QED
    BY <2>1, <2>3
<1>8. PlanOfTheStatement'
  <2> SUFFICES ASSUME NEW q \in Person, <<Statements, q>> \in payoutPass.rows, NEW z \in Person,
                      z \in payoutPass.tombs, payoutRow'[Lines][z] \in {"held", "payable"}, Lines \in RecordTable
               PROVE  <<Lines, z>> \in payoutPass.rows
    BY <1>3 DEF PlanOfTheStatement, PayoutInv
  <2>1. payoutRow[Lines][z] \in {"held", "payable"}
    BY <1>2, <1>4 DEF RowMoves
  <2> QED
    BY <2>1 DEF PayoutInv, PlanOfTheStatement
<1>9. RecordsGoTogether'
  BY <1>3, <1>5 DEF PayoutInv, RowsShaped, RecordsGoTogether, Status
<1> QED
  BY <1>6, <1>7, <1>8, <1>9 DEF PayoutInv

LEMMA YearsKeepRecords == ASSUME PayoutInv, YearsPass PROVE PayoutInv'
<1>1. /\ payoutRow' = [t \in RecordTable |-> [p \in Person |-> IF payoutRow[t][p] = "recent" THEN "old" ELSE payoutRow[t][p]]]
      /\ UNCHANGED <<tombs, document, payoutPass>>
  BY DEF YearsPass
<1>2. \A u \in RecordTable, q \in Person : payoutRow'[u][q] = IF payoutRow[u][q] = "recent" THEN "old" ELSE payoutRow[u][q]
  BY <1>1
<1>3. \A u \in RecordTable, q \in Person : payoutRow'[u][q] = "gone" <=> payoutRow[u][q] = "gone"
  BY <1>2
<1>4. Lines \in RecordTable => \A q \in Person : payoutRow'[Lines][q] = payoutRow[Lines][q]
  BY <1>2 DEF PayoutInv, RowsShaped
<1>5. RowsShaped'
  <2>1. payoutRow' = [u \in RecordTable |-> [q \in Person |-> payoutRow'[u][q]]]
    BY <1>1
  <2> QED
    BY <1>1, <1>2, <1>4, <2>1 DEF PayoutInv, RowsShaped
<1>6. \A q \in Person : <<Reports, q>> \in payoutPass.rows => Lines \in RecordTable
  BY DEF PayoutInv, PlanTogether
<1>7. PlanShaped' /\ PlanStillThere' /\ PlanTogether'
  BY <1>1, <1>3, <1>6 DEF PayoutInv, PlanShaped, PlanStillThere, PlanTogether
<1>8. PlanOfTheStatement'
  BY <1>1, <1>4 DEF PayoutInv, PlanOfTheStatement
<1>9. RecordsGoTogether'
  BY <1>1, <1>3 DEF PayoutInv, RowsShaped, RecordsGoTogether, Status
<1> QED
  BY <1>5, <1>7, <1>8, <1>9 DEF PayoutInv

LEMMA PlanKeepsRecords == ASSUME PayoutInv, planPayoutRecords PROVE PayoutInv'
<1> DEFINE rows == {r \in RecordTable \X Person :
                      IF r[1] = Statements THEN paidEvents /\ \E q \in tombs : Status(Lines, q) \in {"held", "payable"}
                      ELSE Due(r[1], r[2])}
<1>1. payoutPass' = [rows |-> rows, tombs |-> tombs, refused |-> FALSE] /\ UNCHANGED <<tombs, payoutRow, document>>
  BY DEF planPayoutRecords, NoPlan
<1>2. payoutPass'.rows = rows /\ payoutPass'.tombs = tombs /\ ~payoutPass'.refused
  BY <1>1
<1>3. \A p \in Person : <<Statements, p>> \in rows
        <=> Statements \in RecordTable /\ paidEvents /\ \E q \in tombs : Status(Lines, q) \in {"held", "payable"}
  OBVIOUS
<1>4. \A t \in RecordTable, p \in Person : t # Statements => (<<t, p>> \in rows <=> Due(t, p))
  OBVIOUS
<1>5. PlanShaped'
  BY <1>1 DEF PlanShaped
<1>6. \A t, p : <<t, p>> \in rows => t \in RecordTable /\ p \in Person
  OBVIOUS
<1> HIDE DEF rows
<1>7. RowsShaped'
  BY <1>1 DEF PayoutInv, RowsShaped
<1>8. PlanStillThere'
  BY <1>1, <1>2, <1>4 DEF PlanStillThere, Due
<1>9. PlanOfTheStatement'
  <2> SUFFICES ASSUME NEW p \in Person, <<Statements, p>> \in rows
               PROVE  /\ Lines \in RecordTable
                      /\ \A q \in Person : q \in tombs /\ payoutRow[Lines][q] \in {"held", "payable"} => <<Lines, q>> \in rows
    BY <1>1, <1>2 DEF PlanOfTheStatement
  <2>1. paidEvents /\ Lines \in RecordTable
    BY <1>3 DEF Status
  <2> QED
    BY <1>4, <2>1 DEF Due, OfTheEvent, Lines, Statements
<1>10. PlanTogether'
  <2>1. ASSUME NEW p \in Person, <<Reports, p>> \in rows
        PROVE  Lines \in RecordTable /\ (<<Lines, p>> \in rows \/ payoutRow[Lines][p] = "gone")
    <3>1. Reports \in RecordTable /\ Due(Reports, p)
      BY <1>4, <1>6, <2>1 DEF Reports, Statements
    <3>2. p \in tombs /\ paidEvents /\ payoutRow[Reports][p] \notin {"none", "gone"}
      BY <3>1 DEF Due, OfTheEvent
    <3>3. Lines \in RecordTable /\ payoutRow[Lines][p] \in {"payable", "gone"}
      BY <3>1, <3>2 DEF PayoutInv, RowsShaped
    <3>4. payoutRow[Lines][p] = "payable" => Due(Lines, p)
      BY <3>2 DEF Due, OfTheEvent
    <3> QED
      BY <1>4, <3>3, <3>4 DEF Lines, Statements
  <2>2. ASSUME NEW p \in Person, <<Lines, p>> \in rows, NEW q \in Person PROVE <<Statements, q>> \in rows
    <3>1. Lines \in RecordTable /\ Due(Lines, p)
      BY <1>4, <1>6, <2>2 DEF Lines, Statements
    <3>2. p \in tombs /\ paidEvents /\ payoutRow[Lines][p] \notin {"none", "gone"}
      BY <3>1 DEF Due, OfTheEvent
    <3>3. Status(Lines, p) \in {"held", "payable"}
      BY <3>1, <3>2 DEF Status, PayoutInv, RowsShaped
    <3>4. Statements \in RecordTable
      BY <3>1, RetentionAssumption DEF Lines, Statements
    <3> QED
      BY <1>3, <3>2, <3>3, <3>4
  <2> QED
    BY <1>1, <1>2, <2>1, <2>2 DEF PlanTogether
<1>11. RecordsGoTogether'
  BY <1>1, <1>2 DEF PayoutInv, RowsShaped, RecordsGoTogether, Status
<1> QED
  BY <1>5, <1>7, <1>8, <1>9, <1>10, <1>11 DEF PayoutInv

-----------------------------------------------------------------------------
(* Payout records. The steps of a pass are a fold over their list; it is well     *)
(* founded, so there are fifteen states of the transaction, each one step after   *)
(* the one before.                                                                *)

Steps == 1..15

StepBody(base, fold, T) == IF T = {} THEN base ELSE LET i == Max(T) IN Act(fold[T \ {i}], payoutRetentionSteps[i])

IsPurge(base, fold) == fold = [T \in SUBSET Steps |-> StepBody(base, fold, T)]

LEMMA StepsFinite == /\ DOMAIN payoutRetentionSteps = Steps /\ IsFiniteSet(Steps)
                     /\ \A T \in SUBSET Steps : IsFiniteSet(T) /\ Cardinality(T) \in Nat /\ Cardinality(T) <= Cardinality(Steps)
<1>1. DOMAIN payoutRetentionSteps = Steps
  BY DEF payoutRetentionSteps, Steps
<1>2. IsFiniteSet(Steps)
  <2>1. 1 \in Int /\ 15 \in Int
    OBVIOUS
  <2>2. \A a, b \in Int : IsFiniteSet(a..b)
    BY FS_Interval
  <2> QED
    BY <2>1, <2>2 DEF Steps
<1> QED
  BY <1>1, <1>2, FS_Subset, FS_CardinalityType

LEMMA LastStep == ASSUME NEW T \in SUBSET Steps, T # {} PROVE Max(T) \in T /\ \A i \in T : i <= Max(T)
<1> DEFINE Above == {n \in Nat : \A i \in T : i <= n}
<1>1. 15 \in Above
  BY DEF Steps
<1>2. \E n \in Above : \A m \in Above : ~(<<m, n>> \in OpToRel(<, Nat))
  BY <1>1, NatLessThanWellFounded, WFMin
<1>3. PICK n \in Above : \A m \in Above : ~(m < n)
  BY <1>2 DEF OpToRel
<1>4. n \in T
  <2> SUFFICES ASSUME n \notin T PROVE FALSE
    OBVIOUS
  <2>1. \A i \in T : i \in Nat /\ i < n
    BY <1>3 DEF Steps
  <2>2. n - 1 \in Above
    BY <1>3, <2>1
  <2> QED
    BY <1>3, <2>2
<1>5. \E x \in T : \A y \in T : x >= y
  BY <1>3, <1>4 DEF Steps
<1>6. Max(T) \in T /\ \A y \in T : Max(T) >= y
  BY <1>5 DEF Max
<1> QED
  BY <1>6 DEF Steps

LEMMA PurgeExists == ASSUME NEW base PROVE \E fold : IsPurge(base, fold)
<1> DEFINE Q == {n \in Nat : \E g : g = [T \in UpTo(Steps, n) |-> StepBody(base, g, T)]}
<1>1. 0 \in Q
  <2> DEFINE g == [T \in UpTo(Steps, 0) |-> base]
  <2>1. \A T \in UpTo(Steps, 0) : T = {}
    BY StepsFinite, FS_EmptySet DEF UpTo
  <2>2. g = [T \in UpTo(Steps, 0) |-> StepBody(base, g, T)]
    BY <2>1 DEF StepBody
  <2> QED
    BY <2>2
<1>2. ASSUME NEW n \in Q  PROVE n + 1 \in Q
  <2>1. PICK g : g = [T \in UpTo(Steps, n) |-> StepBody(base, g, T)]
    OBVIOUS
  <2> DEFINE h == [T \in UpTo(Steps, n + 1) |-> StepBody(base, g, T)]
  <2>2. ASSUME NEW T \in UpTo(Steps, n + 1)  PROVE StepBody(base, g, T) = StepBody(base, h, T)
    <3>1. CASE T = {}
      BY <3>1 DEF StepBody
    <3>2. CASE T # {}
      <4>1. PICK i : i = Max(T)
        OBVIOUS
      <4>2. i \in T /\ T \in SUBSET Steps
        BY <3>2, <4>1, LastStep DEF UpTo
      <4>3. T \ {i} \in UpTo(Steps, n) /\ T \ {i} \in UpTo(Steps, n + 1)
        <5>1. Cardinality(T) = Cardinality(T \ {i}) + 1 /\ Cardinality(T \ {i}) \in Nat /\ Cardinality(T) <= n + 1
          BY <4>2, StepsFinite, SmallerByOne DEF UpTo
        <5> QED
          BY <4>2, <5>1 DEF UpTo
      <4>4. h[T \ {i}] = g[T \ {i}]
        BY <2>1, <4>3
      <4> QED
        BY <3>2, <4>1, <4>4 DEF StepBody
    <3> QED
      BY <3>1, <3>2
  <2>3. h = [T \in UpTo(Steps, n + 1) |-> StepBody(base, h, T)]
    <3>1. h = [T \in UpTo(Steps, n + 1) |-> StepBody(base, g, T)]
      OBVIOUS
    <3> HIDE DEF h
    <3> QED
      BY <2>2, <3>1
  <2> HIDE DEF h
  <2>4. n \in Nat /\ n + 1 \in Nat
    OBVIOUS
  <2>5. \E e : e = [T \in UpTo(Steps, n + 1) |-> StepBody(base, e, T)]
    BY <2>3
  <2> QED
    BY <2>4, <2>5
<1>3. Q = Nat
  <2> HIDE DEF Q
  <2>1. Q \in SUBSET Nat
    BY DEF Q
  <2> QED
    BY <1>1, <1>2, <2>1, NatBySets
<1>4. Cardinality(Steps) \in Nat /\ UpTo(Steps, Cardinality(Steps)) = SUBSET Steps
  BY StepsFinite, FS_CardinalityType DEF UpTo
<1>5. PICK g : g = [T \in UpTo(Steps, Cardinality(Steps)) |-> StepBody(base, g, T)]
  BY <1>3, <1>4
<1> QED
  BY <1>4, <1>5 DEF IsPurge

LEMMA PurgeUnfolds == ASSUME NEW base
                      PROVE  FoldLeft(Act, base, payoutRetentionSteps) = (CHOOSE fold : IsPurge(base, fold))[Steps]
<1>1. DOMAIN payoutRetentionSteps = Steps
  BY StepsFinite
<1>2. FoldLeft(Act, base, payoutRetentionSteps)
        = (CHOOSE fold : fold = [T \in SUBSET DOMAIN payoutRetentionSteps |-> StepBody(base, fold, T)])
            [DOMAIN payoutRetentionSteps]
  BY DEF FoldLeft, MapThenFoldSet, StepBody
<1> QED
  BY <1>1, <1>2 DEF IsPurge

\* The states of the transaction, one step after another.
PurgeStates(base, state) == /\ state[0] = base
                            /\ \A i \in Steps : state[i] = Act(state[i - 1], payoutRetentionSteps[i])

LEMMA PurgeInSteps ==
  ASSUME NEW base
  PROVE  \E state : PurgeStates(base, state) /\ FoldLeft(Act, base, payoutRetentionSteps) = state[15]
<1> DEFINE fold == CHOOSE fold : IsPurge(base, fold)
<1>1. IsPurge(base, fold)
  BY PurgeExists
<1>2. FoldLeft(Act, base, payoutRetentionSteps) = fold[Steps]
  BY PurgeUnfolds
<1> HIDE DEF fold
<1> DEFINE state == [i \in 0..15 |-> fold[1..i]]
<1>3. state[0] = base
  <2>1. 1..0 = {} /\ {} \in SUBSET Steps
    OBVIOUS
  <2>2. fold[{}] = base
    BY <1>1, <2>1 DEF IsPurge, StepBody
  <2> QED
    BY <2>1, <2>2
<1>4. ASSUME NEW i \in Steps PROVE state[i] = Act(state[i - 1], payoutRetentionSteps[i])
  <2>1. i \in Nat /\ 1..i \in SUBSET Steps /\ i \in 1..i /\ (1..i) \ {i} = 1..(i - 1)
    BY DEF Steps
  <2>2. Max(1..i) = i
    <3>1. Max(1..i) \in 1..i /\ i <= Max(1..i)
      BY <2>1, LastStep
    <3> QED
      BY <2>1, <3>1
  <2>3. fold[1..i] = StepBody(base, fold, 1..i)
    BY <1>1, <2>1 DEF IsPurge
  <2>4. StepBody(base, fold, 1..i) = Act(fold[1..(i - 1)], payoutRetentionSteps[i])
    BY <2>1, <2>2 DEF StepBody
  <2>5. i \in 0..15 /\ i - 1 \in 0..15
    BY DEF Steps
  <2>6. state[i] = fold[1..i] /\ state[i - 1] = fold[1..(i - 1)]
    BY <2>5
  <2> HIDE DEF state
  <2> QED
    BY <2>3, <2>4, <2>6
<1>5. state[15] = fold[Steps]
  BY DEF Steps
<1> HIDE DEF state
<1>6. PurgeStates(base, state)
  BY <1>3, <1>4 DEF PurgeStates
<1> QED
  BY <1>2, <1>5, <1>6

\* A step comes before every other step that touches what it erases.
LEMMA StepsInOrder ==
  /\ payoutRetentionSteps[15] = Statements
  /\ \A i \in 1..14 : payoutRetentionSteps[i] # Statements
  /\ \A i, j \in Steps : i < j => payoutRetentionSteps[j] \notin {payoutRetentionSteps[i]} \cup Cascade(payoutRetentionSteps[i])
  /\ \E i \in 1..14 : payoutRetentionSteps[i] = Lines
  /\ \E i \in 1..14 : payoutRetentionSteps[i] = Reports
  /\ \A t : {Lines, Reports} \cap Cascade(t) = {}
<1> DEFINE place(t) == CHOOSE i \in Steps : payoutRetentionSteps[i] = t
<1>1. payoutRetentionSteps[13] = Reports /\ payoutRetentionSteps[14] = Lines /\ payoutRetentionSteps[15] = Statements
  BY DEF payoutRetentionSteps, Reports, Lines, Statements
<1>2. /\ payoutRetentionSteps[1] = "sponsored_claims" /\ payoutRetentionSteps[2] = "keeperhub_payout_legs"
      /\ payoutRetentionSteps[3] = "keeperhub_payout_exclusions" /\ payoutRetentionSteps[4] = "settlement_holds"
      /\ payoutRetentionSteps[5] = "settlement_lines" /\ payoutRetentionSteps[6] = "redemptions"
      /\ payoutRetentionSteps[7] = "hackathon_maintainer_payouts" /\ payoutRetentionSteps[8] = "hackathon_model_calls"
      /\ payoutRetentionSteps[9] = "hackathon_appeals" /\ payoutRetentionSteps[10] = "hackathon_verdicts"
      /\ payoutRetentionSteps[11] = "hackathon_assignments" /\ payoutRetentionSteps[12] = "hackathon_draws"
  BY DEF payoutRetentionSteps
<1>3. \A i \in 1..12 : i = 1 \/ i = 2 \/ i = 3 \/ i = 4 \/ i = 5 \/ i = 6 \/ i = 7 \/ i = 8 \/ i = 9 \/ i = 10 \/ i = 11 \/ i = 12
  OBVIOUS
<1>4. \A i, j \in Steps : i < j => payoutRetentionSteps[j] # payoutRetentionSteps[i]
  BY <1>1, <1>2 DEF Steps, Reports, Lines, Statements
<1>5. \A i, j \in Steps : i < j => payoutRetentionSteps[j] \notin Cascade(payoutRetentionSteps[i])
  BY <1>1, <1>2 DEF Steps, Reports, Lines, Statements, Cascade
<1>6. \A i \in 1..14 : payoutRetentionSteps[i] # Statements
  BY <1>1, <1>4 DEF Steps
<1> QED
  BY <1>1, <1>4, <1>5, <1>6 DEF Cascade, Lines, Reports

\* After i steps: what they selected is gone, and what the others will take is as it was.
RowsAfter(row, i) ==
  /\ row = [u \in RecordTable |-> [p \in Person |-> row[u][p]]]
  /\ \A u \in RecordTable, p \in Person : row[u][p] \in {payoutRow[u][p], "gone"}
  /\ \A j \in Steps, p \in Person :
       <<payoutRetentionSteps[j], p>> \in payoutPass.rows /\ i < j =>
         row[payoutRetentionSteps[j]][p] = payoutRow[payoutRetentionSteps[j]][p]
  /\ \A j \in 1..14, p \in Person :
       <<payoutRetentionSteps[j], p>> \in payoutPass.rows /\ j <= i => row[payoutRetentionSteps[j]][p] = "gone"
  /\ \A u \in {Lines, Reports} \cap RecordTable, p \in Person :
       <<u, p>> \notin payoutPass.rows => row[u][p] = payoutRow[u][p]

Purging(done, i) == done = [ok |-> TRUE, row |-> done.row, document |-> document] /\ RowsAfter(done.row, i)

LEMMA Purged ==
  ASSUME NEW e, NEW row, NEW i, e = [ok |-> TRUE, row |-> row, document |-> document], RowsAfter(row, i)
  PROVE  Purging(e, i)
<1>1. e.row = row
  OBVIOUS
<1>2. RowsAfter(e.row, i)
  BY <1>1
<1>3. e = [ok |-> TRUE, row |-> e.row, document |-> document]
  BY <1>1
<1> QED
  BY <1>2, <1>3 DEF Purging

LEMMA OkAndRow ==
  ASSUME NEW ok, NEW new, NEW done, done = [ok |-> done.ok, row |-> done.row, document |-> done.document],
         NEW e, e = [done EXCEPT !.ok = ok, !.row = new]
  PROVE  e = [ok |-> ok, row |-> new, document |-> done.document]
<1>1. e.ok = ok /\ e.row = new /\ e.document = done.document
  OBVIOUS
<1>2. e = [ok |-> e.ok, row |-> e.row, document |-> e.document]
  OBVIOUS
<1> QED
  BY <1>1, <1>2

LEMMA OkAndDocument ==
  ASSUME NEW ok, NEW new, NEW done, done = [ok |-> done.ok, row |-> done.row, document |-> done.document],
         NEW e, e = [done EXCEPT !.ok = ok, !.document = @ \cap new]
  PROVE  e = [ok |-> ok, row |-> done.row, document |-> done.document \cap new]
<1>1. e.ok = ok /\ e.row = done.row /\ e.document = done.document \cap new
  OBVIOUS
<1>2. e = [ok |-> e.ok, row |-> e.row, document |-> e.document]
  OBVIOUS
<1> QED
  BY <1>1, <1>2

LEMMA PurgeStep ==
  ASSUME PayoutInv, NEW i \in 1..14, NEW done, Purging(done, i - 1)
  PROVE  Purging(Act(done, payoutRetentionSteps[i]), i)
<1> DEFINE t == payoutRetentionSteps[i]
           row == [u \in RecordTable |-> [p \in Person |->
                     IF p \in Selected(t) /\ u \in {t} \cup Cascade(t) THEN "gone" ELSE done.row[u][p]]]
<1>1. /\ t # Statements /\ i \in Steps /\ i - 1 \in Nat
      /\ \A j \in Steps : i < j => payoutRetentionSteps[j] \notin {t} \cup Cascade(t)
      /\ \A z : {Lines, Reports} \cap Cascade(z) = {}
  BY StepsInOrder DEF Steps
<1>2. RowsAfter(done.row, i - 1) /\ done.ok = TRUE
  BY DEF Purging
<1>3. \A p \in Person : p \in Selected(t) <=> <<t, p>> \in payoutPass.rows
  BY DEF Selected
<1>4. \A p \in Person : <<t, p>> \in payoutPass.rows => t \in RecordTable
  BY DEF PayoutInv, PlanShaped
<1>5. CASE Selected(t) = {}
  <2>1. Act(done, t) = done
    BY <1>5 DEF Act
  <2>2. RowsAfter(done.row, i)
    <3>1. \A j \in 1..14, p \in Person :
            <<payoutRetentionSteps[j], p>> \in payoutPass.rows /\ j <= i => done.row[payoutRetentionSteps[j]][p] = "gone"
      <4> SUFFICES ASSUME NEW j \in 1..14, NEW p \in Person, <<payoutRetentionSteps[j], p>> \in payoutPass.rows, j <= i
                   PROVE  done.row[payoutRetentionSteps[j]][p] = "gone"
        OBVIOUS
      <4>1. j # i
        BY <1>3, <1>5
      <4>2. j <= i - 1
        BY <4>1
      <4> QED
        BY <1>2, <4>2 DEF RowsAfter
    <3>2. \A j \in Steps : i < j => i - 1 < j
      BY DEF Steps
    <3> QED
      BY <1>2, <3>1, <3>2 DEF RowsAfter
  <2> QED
    BY <2>1, <2>2 DEF Purging
<1>6. CASE Selected(t) # {}
  <2>1. \A p \in Selected(t) : done.row[t][p] # "gone"
    <3> SUFFICES ASSUME NEW p \in Selected(t) PROVE done.row[t][p] # "gone"
      OBVIOUS
    <3>1. p \in Person /\ <<t, p>> \in payoutPass.rows /\ t \in RecordTable
      BY <1>4 DEF Selected
    <3>2. payoutRow[t][p] # "gone"
      BY <1>1, <3>1 DEF PayoutInv, PlanStillThere
    <3> QED
      BY <1>1, <1>2, <3>1, <3>2 DEF RowsAfter
  <2>2. Act(done, t) = [ok |-> TRUE, row |-> row, document |-> document]
    <3>1. done = [ok |-> TRUE, row |-> done.row, document |-> document]
      BY DEF Purging
    <3>2. Act(done, t) = [done EXCEPT !.ok = \A p \in Selected(t) : done.row[t][p] # "gone", !.row = row]
      BY <1>1, <1>2, <1>6 DEF Act
    <3> HIDE DEF t, row
    <3>3. Act(done, t) = [done EXCEPT !.ok = TRUE, !.row = row]
      BY <2>1, <3>2
    <3>4. done.document = document /\ done = [ok |-> done.ok, row |-> done.row, document |-> done.document]
      BY <3>1
    <3>5. Act(done, t) = [ok |-> TRUE, row |-> row, document |-> done.document]
      BY <3>3, <3>4, OkAndRow
    <3> QED
      BY <3>4, <3>5
  <2>3. \A u \in RecordTable, p \in Person :
          row[u][p] = IF p \in Selected(t) /\ u \in {t} \cup Cascade(t) THEN "gone" ELSE done.row[u][p]
    OBVIOUS
  <2>4. row = [u \in RecordTable |-> [p \in Person |-> row[u][p]]]
    OBVIOUS
  <2> HIDE DEF row
  <2>5. \A j \in 1..14, p \in Person :
          <<payoutRetentionSteps[j], p>> \in payoutPass.rows /\ j <= i => row[payoutRetentionSteps[j]][p] = "gone"
    <3> SUFFICES ASSUME NEW j \in 1..14, NEW p \in Person, <<payoutRetentionSteps[j], p>> \in payoutPass.rows, j <= i
                 PROVE  row[payoutRetentionSteps[j]][p] = "gone"
      OBVIOUS
    <3>1. payoutRetentionSteps[j] \in RecordTable
      BY DEF PayoutInv, PlanShaped
    <3>2. CASE j = i
      BY <1>3, <2>3, <3>1, <3>2
    <3>3. CASE j <= i - 1
      <4>1. done.row[payoutRetentionSteps[j]][p] = "gone"
        BY <1>2, <3>3 DEF RowsAfter
      <4> QED
        BY <2>3, <3>1, <4>1
    <3> QED
      BY <3>2, <3>3
  <2>6. \A j \in Steps, p \in Person :
          <<payoutRetentionSteps[j], p>> \in payoutPass.rows /\ i < j =>
            row[payoutRetentionSteps[j]][p] = payoutRow[payoutRetentionSteps[j]][p]
    <3> SUFFICES ASSUME NEW j \in Steps, NEW p \in Person, <<payoutRetentionSteps[j], p>> \in payoutPass.rows, i < j
                 PROVE  row[payoutRetentionSteps[j]][p] = payoutRow[payoutRetentionSteps[j]][p]
      OBVIOUS
    <3>1. payoutRetentionSteps[j] \in RecordTable
      BY DEF PayoutInv, PlanShaped
    <3>2. i - 1 < j
      BY DEF Steps
    <3>3. done.row[payoutRetentionSteps[j]][p] = payoutRow[payoutRetentionSteps[j]][p]
      BY <1>2, <3>2 DEF RowsAfter
    <3> QED
      BY <1>1, <2>3, <3>1, <3>3
  <2>7. \A u \in {Lines, Reports} \cap RecordTable, p \in Person :
          <<u, p>> \notin payoutPass.rows => row[u][p] = payoutRow[u][p]
    <3> SUFFICES ASSUME NEW u \in {Lines, Reports} \cap RecordTable, NEW p \in Person, <<u, p>> \notin payoutPass.rows
                 PROVE  row[u][p] = payoutRow[u][p]
      OBVIOUS
    <3>1. ~(p \in Selected(t) /\ u \in {t} \cup Cascade(t))
      BY <1>1, <1>3
    <3> QED
      BY <1>2, <2>3, <3>1 DEF RowsAfter
  <2>8. \A u \in RecordTable, p \in Person : row[u][p] \in {payoutRow[u][p], "gone"}
    BY <1>2, <2>3 DEF RowsAfter
  <2> HIDE DEF t
  <2>9. RowsAfter(row, i)
    BY <2>4, <2>5, <2>6, <2>7, <2>8 DEF RowsAfter
  <2> QED
    BY <2>2, <2>9, Purged DEF t
<1> QED
  BY <1>5, <1>6

LEMMA PurgeRuns ==
  ASSUME PayoutInv, NEW state, PurgeStates([ok |-> TRUE, row |-> payoutRow, document |-> document], state)
  PROVE  Purging(state[14], 14)
<1> DEFINE Q == {n \in Nat : n <= 14 => Purging(state[n], n)}
<1>1. 0 \in Q
  <2>1. RowsAfter(payoutRow, 0)
    BY DEF RowsAfter, PayoutInv, RowsShaped
  <2>2. state[0] = [ok |-> TRUE, row |-> payoutRow, document |-> document]
    BY DEF PurgeStates
  <2> QED
    BY <2>1, <2>2, Purged
<1>2. ASSUME NEW n \in Q PROVE n + 1 \in Q
  <2>1. SUFFICES ASSUME n + 1 <= 14 PROVE Purging(state[n + 1], n + 1)
    OBVIOUS
  <2>2. n + 1 \in 1..14 /\ n + 1 \in Steps /\ (n + 1) - 1 = n
    BY <2>1 DEF Steps
  <2>3. Purging(state[n], n)
    BY <2>1
  <2>4. state[n + 1] = Act(state[n], payoutRetentionSteps[n + 1])
    BY <2>2 DEF PurgeStates
  <2> HIDE DEF Q
  <2>5. PICK i : i = n + 1
    OBVIOUS
  <2>6. i \in 1..14 /\ Purging(state[n], i - 1)
    BY <2>2, <2>3, <2>5
  <2>7. Purging(Act(state[n], payoutRetentionSteps[i]), i)
    BY <2>6, PurgeStep
  <2> QED
    BY <2>4, <2>5, <2>7
<1>3. Q = Nat
  <2> HIDE DEF Q
  <2>1. Q \in SUBSET Nat
    BY DEF Q
  <2> QED
    BY <1>1, <1>2, <2>1, NatBySets
<1> QED
  BY <1>3

\* What a pass that commits leaves.
Stands(row, doc) ==
  /\ row = [u \in RecordTable |-> [p \in Person |-> row[u][p]]]
  /\ \A u \in RecordTable, p \in Person : row[u][p] \in {payoutRow[u][p], "gone"}
  /\ \A u \in {Lines, Reports} \cap RecordTable, p \in Person : <<u, p>> \in payoutPass.rows => row[u][p] = "gone"
  /\ \A u \in {Lines, Reports} \cap RecordTable, p \in Person : <<u, p>> \notin payoutPass.rows => row[u][p] = payoutRow[u][p]
  /\ doc \subseteq document
  /\ Lines \in RecordTable => \A p \in doc : row[Lines][p] # "gone"

LEMMA PurgeKeepsRecords ==
  ASSUME PayoutInv, NEW disturbed \in BOOLEAN, purgePayoutRecords(disturbed) PROVE PayoutInv'
<1> DEFINE begun == [ok |-> TRUE, row |-> payoutRow, document |-> document]
           run == FoldLeft(Act, begun, payoutRetentionSteps)
<1>1. CASE disturbed
  <2>1. payoutPass' = NoPlan /\ UNCHANGED <<tombs, payoutRow, document>>
    BY <1>1 DEF purgePayoutRecords
  <2>2. RowsShaped' /\ RecordsGoTogether'
    BY <2>1 DEF NoPlan, PayoutInv, RowsShaped, RecordsGoTogether, Status
  <2>3. PlanShaped' /\ PlanStillThere' /\ PlanOfTheStatement' /\ PlanTogether'
    BY <2>1 DEF NoPlan, PlanShaped, PlanStillThere, PlanOfTheStatement, PlanTogether
  <2> QED
    BY <2>2, <2>3 DEF PayoutInv
<1>2. CASE ~disturbed
  <2>1. PICK state : PurgeStates(begun, state) /\ run = state[15]
    BY PurgeInSteps
  <2>2. Purging(state[14], 14)
    BY <2>1, PurgeRuns
  <2>3. run = Act(state[14], Statements)
    <3>1. 15 \in Steps /\ 15 - 1 = 14
      BY DEF Steps
    <3> QED
      BY <2>1, <3>1, StepsInOrder DEF PurgeStates
  <2> HIDE DEF run
  <2> DEFINE row == state[14].row
  <2>4. state[14] = [ok |-> TRUE, row |-> row, document |-> document] /\ RowsAfter(row, 14) /\ state[14].ok = TRUE
    BY <2>2 DEF Purging
  <2> HIDE DEF row
  <2>5. \A u \in {Lines, Reports} \cap RecordTable, p \in Person : <<u, p>> \in payoutPass.rows => row[u][p] = "gone"
    <3> SUFFICES ASSUME NEW u \in {Lines, Reports} \cap RecordTable, NEW p \in Person, <<u, p>> \in payoutPass.rows
                 PROVE  row[u][p] = "gone"
      OBVIOUS
    <3>1. PICK i \in 1..14 : payoutRetentionSteps[i] = u
      BY StepsInOrder
    <3>2. i <= 14
      OBVIOUS
    <3> QED
      BY <2>4, <3>1, <3>2 DEF RowsAfter
  <2>6. run.ok /\ run.row = row /\ Stands(row, run.document)
    <3>1. CASE Selected(Statements) = {}
      <4>1. run = state[14]
        BY <2>3, <3>1 DEF Act
      <4>2. \A p \in Person : <<Lines, p>> \notin payoutPass.rows
        BY <3>1 DEF PayoutInv, PlanTogether, Selected
      <4>3. Lines \in RecordTable => \A p \in document : row[Lines][p] # "gone"
        <5> SUFFICES ASSUME Lines \in RecordTable, NEW p \in document PROVE row[Lines][p] # "gone"
          OBVIOUS
        <5>1. p \in Person /\ payoutRow[Lines][p] # "gone"
          BY DEF PayoutInv, RowsShaped, RecordsGoTogether, Status
        <5>2. row[Lines][p] = payoutRow[Lines][p]
          BY <2>4, <4>2, <5>1 DEF RowsAfter
        <5> QED
          BY <5>1, <5>2
      <4>4. run.ok /\ run.row = row /\ run.document = document
        BY <2>4, <4>1
      <4> QED
        BY <2>4, <2>5, <4>3, <4>4 DEF RowsAfter, Stands
    <3>2. CASE Selected(Statements) # {}
      <4> DEFINE left == {p \in Person : row[Lines][p] \in {"held", "payable"}}
      <4>1. PICK q \in Person : <<Statements, q>> \in payoutPass.rows
        BY <3>2 DEF Selected
      <4>2. /\ Lines \in RecordTable
            /\ \A p \in Person : p \in payoutPass.tombs /\ payoutRow[Lines][p] \in {"held", "payable"} => <<Lines, p>> \in payoutPass.rows
        BY <4>1 DEF PayoutInv, PlanOfTheStatement
      <4>3. left \cap payoutPass.tombs = {}
        BY <2>4, <2>5, <4>2 DEF RowsAfter
      <4>4. run = [ok |-> TRUE, row |-> row, document |-> document \cap left]
        <5>1. run = [state[14] EXCEPT !.ok = left \cap payoutPass.tombs = {}, !.document = @ \cap left]
          <6>1. state[14].row = row
            BY <2>4
          <6> QED
            BY <2>3, <2>4, <3>2, <6>1 DEF Act
        <5> HIDE DEF left
        <5>2. run = [state[14] EXCEPT !.ok = TRUE, !.document = @ \cap left]
          BY <4>3, <5>1
        <5>3. PICK done : done = state[14]
          OBVIOUS
        <5>4. done = [ok |-> done.ok, row |-> done.row, document |-> done.document] /\ done.row = row /\ done.document = document
          BY <2>4, <5>3
        <5>5. run = [ok |-> TRUE, row |-> done.row, document |-> done.document \cap left]
          BY <5>2, <5>3, <5>4, OkAndDocument
        <5> QED
          BY <5>4, <5>5
      <4>5. \A p \in document \cap left : row[Lines][p] # "gone"
        OBVIOUS
      <4> HIDE DEF left
      <4> QED
        BY <2>4, <2>5, <4>4, <4>5 DEF RowsAfter, Stands
    <3> QED
      BY <3>1, <3>2
  <2>7. payoutRow' = row /\ document' = run.document /\ payoutPass' = NoPlan /\ tombs' = tombs
    BY <1>2, <2>6 DEF purgePayoutRecords, run
  <2>8. /\ payoutRow' = [u \in RecordTable |-> [p \in Person |-> payoutRow'[u][p]]]
        /\ \A u \in RecordTable, p \in Person : payoutRow'[u][p] \in {payoutRow[u][p], "gone"}
        /\ \A u \in {Lines, Reports} \cap RecordTable, p \in Person : <<u, p>> \in payoutPass.rows => payoutRow'[u][p] = "gone"
        /\ \A u \in {Lines, Reports} \cap RecordTable, p \in Person :
              <<u, p>> \notin payoutPass.rows => payoutRow'[u][p] = payoutRow[u][p]
        /\ document' \subseteq document
        /\ Lines \in RecordTable => \A p \in document' : payoutRow'[Lines][p] # "gone"
    <3>1. PICK after, doc : after = row /\ doc = run.document
      OBVIOUS
    <3>2. Stands(after, doc)
      BY <2>6, <3>1
    <3>3. payoutRow' = after /\ document' = doc
      BY <2>7, <3>1
    <3>4. after = [u \in RecordTable |-> [p \in Person |-> after[u][p]]]
      BY <3>2 DEF Stands
    <3>5. payoutRow' = [u \in RecordTable |-> [p \in Person |-> payoutRow'[u][p]]]
      BY <3>3, <3>4
    <3> QED
      BY <3>2, <3>3, <3>5 DEF Stands
  <2>9. RowsShaped'
    BY <2>8 DEF PayoutInv, RowsShaped, PlanTogether
  <2>10. PlanShaped' /\ PlanStillThere' /\ PlanOfTheStatement' /\ PlanTogether'
    BY <2>7 DEF NoPlan, PlanShaped, PlanStillThere, PlanOfTheStatement, PlanTogether
  <2>11. RecordsGoTogether'
    <3>1. \A p \in Person : Reports \in RecordTable /\ payoutRow'[Reports][p] = "gone" =>
            Lines \in RecordTable /\ payoutRow'[Lines][p] = "gone"
      <4> SUFFICES ASSUME NEW p \in Person, Reports \in RecordTable, payoutRow'[Reports][p] = "gone"
                   PROVE  Lines \in RecordTable /\ payoutRow'[Lines][p] = "gone"
        OBVIOUS
      <4>1. CASE <<Reports, p>> \in payoutPass.rows
        BY <2>8, <4>1 DEF PayoutInv, PlanTogether
      <4>2. CASE <<Reports, p>> \notin payoutPass.rows
        <5>1. payoutRow[Reports][p] = "gone"
          BY <2>8, <4>2
        <5>2. Lines \in RecordTable
          BY <5>1 DEF PayoutInv, RowsShaped
        <5>3. payoutRow[Lines][p] = "gone"
          BY <5>1, <5>2 DEF PayoutInv, RecordsGoTogether, Status
        <5> QED
          BY <2>8, <5>2, <5>3
      <4> QED
        BY <4>1, <4>2
    <3> QED
      BY <2>7, <2>8, <3>1 DEF RecordsGoTogether, Status, NoPlan
  <2> QED
    BY <2>9, <2>10, <2>11 DEF PayoutInv
<1> QED
  BY <1>1, <1>2

LEMMA PayoutRecordsKept == PayoutInv /\ [ResetRecordsNext \/ PayoutRecordsNext]_retentionVars => PayoutInv'
<1> SUFFICES ASSUME PayoutInv, [ResetRecordsNext \/ PayoutRecordsNext]_retentionVars PROVE PayoutInv'
  OBVIOUS
<1>1. CASE ResetRecordsNext
  <2>1. UNCHANGED payoutVars
    BY <1>1 DEF ResetRecordsNext, PayoutsStand, RecordsStand, CreateSession, FindsGone, StoreSession, StartDies,
                DeletedAtDidit, ResetVerification, ResetRecordAges, selectResetRecords, DeleteDiditSession,
                purgeResetRecords, ResetPassDies
  <2> QED
    BY <2>1, PayoutsStay
<1>2. CASE PayoutRecordsNext
  BY <1>2, EraseAccountKeepsRecords, PayoutProceedsKeepsRecords, YearsKeepRecords, PlanKeepsRecords, PurgeKeepsRecords
     DEF PayoutRecordsNext
<1>3. CASE UNCHANGED retentionVars
  BY <1>3, PayoutsStay DEF retentionVars, payoutVars
<1> QED
  BY <1>1, <1>2, <1>3

\* The payout records of erased accounts go together, whatever is planned while what.
LEMMA RecordsSound == RetentionSpec => []RecordsGoTogether
<1>1. PayoutInv => RecordsGoTogether
  BY DEF PayoutInv
<1> QED
  BY <1>1, PayoutsBegin, PayoutRecordsKept, PTL DEF RetentionSpec

-----------------------------------------------------------------------------
(* A behaviour that moves one service and leaves the others is a behaviour of    *)
(* every service: what is proved of a service holds where TLC checks it.         *)

\* Every service begins in one of its own initial states and takes its own steps or none,
\* whichever of them moves.
THEOREM EveryServiceKeepsItsOwn ==
  ServicesSpec => /\ DivisionSpec /\ FoundingSpec /\ FoundingSettlementSpec /\ VerdictSpec /\ MaintainerSpec /\ SignInSpec /\ ClaimsSpec
                  /\ RepositorySpec /\ SupportSpec /\ RetentionSpec /\ TreeSpec /\ StartSpec /\ BoardSpec
                  /\ SettingsSpec /\ SaltSpec /\ BountySpec
<1>1. ServicesInit => /\ DivisionInit /\ FoundingInit /\ FoundingSettlementInit /\ VerdictInit /\ MaintainerInit /\ SignInInit /\ ClaimsInit
                      /\ RepositoryInit /\ SupportInit /\ RetentionInit /\ TreeInit /\ StartInit /\ BoardInit
                      /\ SettingsInit /\ SaltInit /\ BountyInit
  BY DEF ServicesInit
<1>2. ASSUME UNCHANGED All
      PROVE  /\ UNCHANGED divisionVars
             /\ UNCHANGED foundingVars /\ UNCHANGED foundingSettlementVars /\ UNCHANGED verdictVars
             /\ UNCHANGED maintainerVars /\ UNCHANGED signInVars /\ UNCHANGED claimsVars
             /\ UNCHANGED repositoryVars /\ UNCHANGED supportVars /\ UNCHANGED retentionVars
             /\ UNCHANGED merkleVars /\ UNCHANGED startVars /\ UNCHANGED boardVars
             /\ UNCHANGED settingsVars /\ UNCHANGED saltVars /\ UNCHANGED bountyVars
  BY <1>2 DEF All
<1>3. ASSUME ServicesNext
      PROVE  /\ DivisionNext \/ UNCHANGED divisionVars
             /\ FoundingNext \/ UNCHANGED foundingVars
             /\ FoundingSettlementNext \/ UNCHANGED foundingSettlementVars
             /\ VerdictNext \/ UNCHANGED verdictVars
             /\ MaintainerNext \/ UNCHANGED maintainerVars
             /\ NonceNext \/ GitHubNext \/ UNCHANGED signInVars
             /\ PayingNext \/ RemindersNext \/ UNCHANGED claimsVars
             /\ MirrorNext \/ ProjectNext \/ UNCHANGED repositoryVars
             /\ SupportNext \/ UNCHANGED supportVars
             /\ ResetRecordsNext \/ PayoutRecordsNext \/ UNCHANGED retentionVars
             /\ TreeNext \/ UNCHANGED merkleVars
             /\ StartNext \/ UNCHANGED startVars
             /\ BoardNext \/ UNCHANGED boardVars
             /\ SettingsNext \/ UNCHANGED settingsVars
             /\ SaltNext \/ UNCHANGED saltVars
             /\ BountyNext \/ UNCHANGED bountyVars
  BY <1>3 DEF ServicesNext, OthersRest, BountyNext
<1>4. ServicesInit /\ [][ServicesNext]_All
        => /\ [][DivisionNext]_divisionVars
           /\ [][FoundingNext]_foundingVars /\ [][FoundingSettlementNext]_foundingSettlementVars
           /\ [][VerdictNext]_verdictVars /\ [][MaintainerNext]_maintainerVars
           /\ [][NonceNext \/ GitHubNext]_signInVars /\ [][PayingNext \/ RemindersNext]_claimsVars
           /\ [][MirrorNext \/ ProjectNext]_repositoryVars /\ [][SupportNext]_supportVars
           /\ [][ResetRecordsNext \/ PayoutRecordsNext]_retentionVars /\ [][TreeNext]_merkleVars
           /\ [][StartNext]_startVars /\ [][BoardNext]_boardVars /\ [][SettingsNext]_settingsVars
           /\ [][SaltNext]_saltVars /\ [][BountyNext]_bountyVars
  BY <1>2, <1>3, PTL
<1> QED
  BY <1>1, <1>4, PTL DEF ServicesSpec, DivisionSpec, FoundingSpec, FoundingSettlementSpec, VerdictSpec, MaintainerSpec, SignInSpec,
     ClaimsSpec, RepositorySpec, SupportSpec, RetentionSpec, TreeSpec, StartSpec, BoardSpec, SettingsSpec, SaltSpec,
     BountySpec

-----------------------------------------------------------------------------
(* What the runs check of several services together, where TLC checks it.         *)

\* What pays people adds up: the plan of a judged pool fits it and owes nothing to rejected
\* work, a sponsor's gift is split to the cent, and the founding members' pool is divided
\* whole, to whoever was approved, within a unit of the exact shares.
THEOREM DivisionsAreExact == ServicesSpec => []DivisionsAddUp
BY EveryServiceKeepsItsOwn, PoolDivisionSound, SplitsSound, FoundingDivides, PTL DEF DivisionsAddUp

\* A nonce buys one thing and a deadline is announced once.
THEOREM DoneOnceHolds == ServicesSpec => []DoneOnce
BY EveryServiceKeepsItsOwn, NoncesSound, RemindersSound, PTL DEF DoneOnce

\* Who is approved and verified gets a seat, of the wave that was announced, and the
\* shares of what was merged.
THEOREM SeatsAreSound == ServicesSpec => []SeatsSound
BY EveryServiceKeepsItsOwn, SeatsComeInWaves, GrantsComplete, PTL DEF SeatsSound

\* No cap is passed: the approved people of the programme, what a referrer earns, and the
\* sponsored gas of an event.
THEOREM CapsAreKept == ServicesSpec => []CapsHold
BY EveryServiceKeepsItsOwn, ApprovalsSound, ReferralsSound, SponsorsSound, PTL DEF CapsHold

\* The records say what happened: a report was seen where its stamps say, and a value in
\* force was audited when it was set.
THEOREM RecordsAreHonest == ServicesSpec => []RecordsHonest
BY EveryServiceKeepsItsOwn, ReportsSound, SettingsSound, PTL DEF RecordsHonest

\* What the agent does for an administrator an administrator asked for, a wallet is linked
\* as its signer asked, and a report stays queued until its person heard of it.
THEOREM RelaysAreFaithful == ServicesSpec => []RelayedFaithfully
BY EveryServiceKeepsItsOwn, BountySound, PTL DEF RelayedFaithfully

\* No visitor sees a board go back in time, the cache keeps its ceiling, and a badge agrees
\* with the board of the same data.
THEOREM BoardsAreHonest == ServicesSpec => []BoardsHonest
BY EveryServiceKeepsItsOwn, BoardsSound, PTL DEF BoardsHonest

\* A claim verifies against the published root exactly when it is one of the leaves, in
\* whatever order the rows came, and one that is served is.
THEOREM ClaimsAreProved == ServicesSpec => []ClaimsProve
BY EveryServiceKeepsItsOwn, OnlyLeavesHaveClaims, PTL DEF ClaimsProve

\* What is kept for a time goes together: no session is forgotten while Didit has it, no
\* payment while its line can still be paid, and a settlement has its salt or a tombstone.
THEOREM RetentionIsSound == ServicesSpec => []RetentionSound
BY EveryServiceKeepsItsOwn, SessionsSound, RecordsSound, SaltsSound, PTL DEF RetentionSound
=============================================================================

-------------------------------- MODULE SignIn --------------------------------
(* Nonces, the two things a signed nonce buys - a session, or a payout address  *)
(* - and the GitHub callback that creates or finds an account. Requests run at  *)
(* the same moment, fail and die between any two of their statements            *)
(* (internal/auth, handlers/payout_address.go, handlers/github_oauth.go).       *)
EXTENDS Naturals, Sequences, FiniteSets

CONSTANTS
  User,           \* accounts, those not created yet included
  Settler,        \* accounts that exist from the start
  Wallet,         \* addresses; one chain
  Nonce,          \* nonces that may be issued
  Identity,       \* GitHub users
  Referrable,     \* OAuth states that carry a referral code
  OAuthState,     \* OAuth states that may be issued
  Caller,         \* requests served at the same moment
  Nil

ASSUME SignInAssumption ==
  /\ Settler \subseteq User /\ Referrable \subseteq OAuthState /\ Nil \notin User \cup Wallet \cup Nonce \cup Identity

VARIABLES
  nonce,          \* auth_nonces
  walletUser,     \* wallets
  payoutAddress,  \* the live row of contributor_addresses of each account
  created,        \* users
  nonceCall,      \* requests that hold a signed nonce
  spent,          \* history: what each nonce has bought
  oauthState,     \* oauth_states
  gitHubId,       \* users.github_user_id
  gitHubAccount,  \* github_accounts.github_user_id
  referredBy,     \* referrals by referred_user_id
  callback        \* the GitHub callbacks under way

nonceVars == <<nonce, walletUser, payoutAddress, nonceCall, spent>>
gitHubVars == <<oauthState, gitHubId, gitHubAccount, referredBy, callback>>
signInVars == <<nonceVars, created, gitHubVars>>

NoNonce == [wallet |-> Nil, purpose |-> Nil, used |-> FALSE, stands |-> FALSE]
NoNonceCall == [pc |-> "idle", user |-> Nil, nonce |-> Nil, seen |-> Nil]
NoCallback == [pc |-> "idle", state |-> Nil, kind |-> "none", id |-> Nil, user |-> Nil, before |-> {}]

SignInInit ==
  /\ nonce = [n \in Nonce |-> NoNonce] /\ walletUser = [w \in Wallet |-> Nil]
  /\ payoutAddress = [u \in User |-> Nil] /\ created = Settler
  /\ nonceCall = [k \in Caller |-> NoNonceCall] /\ spent = [n \in Nonce |-> <<>>]
  /\ oauthState = [s \in OAuthState |-> "none"] /\ gitHubId = [u \in User |-> Nil]
  /\ gitHubAccount = [u \in User |-> Nil] /\ referredBy = [u \in User |-> FALSE]
  /\ callback = [k \in Caller |-> NoCallback]

-----------------------------------------------------------------------------
(* Nonces.                                                                     *)

NonceCallGoes(k, call) == nonceCall' = [nonceCall EXCEPT ![k] = call]
NonceCallEnds(k) == NonceCallGoes(k, NoNonceCall)

\* CreateNonce for signing in, CreateNonceForPurpose for a payout address.
CreateNonce(n, w, purpose) ==
  /\ nonce[n] = NoNonce /\ purpose \in {"signin", "payout_address"}
  /\ \A m \in Nonce : m < n => nonce[m] # NoNonce
  /\ nonce' = [nonce EXCEPT ![n] = [wallet |-> w, purpose |-> purpose, used |-> FALSE, stands |-> TRUE]]
  /\ UNCHANGED <<walletUser, payoutAddress, nonceCall, spent, created, gitHubVars>>

\* It expires, and the sweeper deletes it a day later: either way it buys nothing more.
SweepOnce(n) ==
  /\ nonce[n].stands /\ nonce' = [nonce EXCEPT ![n].stands = FALSE]
  /\ UNCHANGED <<walletUser, payoutAddress, nonceCall, spent, created, gitHubVars>>

\* The signature has been verified; the row of the nonce is locked if it can be used.
Verify(k, n) ==
  /\ nonceCall[k].pc = "idle" /\ nonce[n].stands /\ ~nonce[n].used /\ nonce[n].purpose = "signin"
  /\ ~\E l \in Caller : nonceCall[l].pc = "session" /\ nonceCall[l].nonce = n
  /\ NonceCallGoes(k, [pc |-> "session", user |-> Nil, nonce |-> n, seen |-> walletUser[nonce[n].wallet]])
  /\ UNCHANGED <<nonce, walletUser, payoutAddress, spent, created, gitHubVars>>

\* One transaction: the nonce is used with the account it opens or not at all, and a
\* wallet somebody else has registered meanwhile rolls it back.
ConsumeNonceAndUpsertUser(k) ==
  /\ nonceCall[k].pc = "session" /\ NonceCallEnds(k)
  /\ LET n == nonceCall[k].nonce  w == nonce[n].wallet  seen == nonceCall[k].seen IN
     IF seen = Nil /\ walletUser[w] # Nil THEN UNCHANGED <<nonce, walletUser, spent, created>>
     ELSE /\ nonce' = [nonce EXCEPT ![n].used = TRUE]
          /\ spent' = [spent EXCEPT ![n] = Append(@, "signin")]
          /\ IF seen # Nil THEN UNCHANGED <<walletUser, created>>
             ELSE \E u \in User \ created : /\ walletUser' = [walletUser EXCEPT ![w] = u]
                                            /\ created' = created \cup {u}
  /\ UNCHANGED <<payoutAddress, gitHubVars>>

\* ConsumeNonceForPurpose reads first, for the sake of its errors.
PostAddress(k, u, n) ==
  /\ nonceCall[k].pc = "idle" /\ u \in created
  /\ nonce[n].stands /\ ~nonce[n].used /\ nonce[n].purpose = "payout_address"
  /\ NonceCallGoes(k, [pc |-> "consume", user |-> u, nonce |-> n, seen |-> Nil])
  /\ UNCHANGED <<nonce, walletUser, payoutAddress, spent, created, gitHubVars>>

ConsumeWhatWasRead(k) == \* mutant
  /\ nonceCall[k].pc = "consume" /\ NonceCallGoes(k, [nonceCall[k] EXCEPT !.pc = "holder"])
  /\ nonce' = [nonce EXCEPT ![nonceCall[k].nonce].used = TRUE]
  /\ spent' = [spent EXCEPT ![nonceCall[k].nonce] = Append(@, "payout_address")]
  /\ UNCHANGED <<walletUser, payoutAddress, created, gitHubVars>>

\* The update itself decides who is first; it does not ask for the expiry again.
ConsumeNonceForPurpose(k) ==
  /\ nonceCall[k].pc = "consume"
  /\ LET n == nonceCall[k].nonce IN
     IF nonce[n].used THEN NonceCallEnds(k) /\ UNCHANGED <<nonce, spent>>
     ELSE /\ nonce' = [nonce EXCEPT ![n].used = TRUE]
          /\ spent' = [spent EXCEPT ![n] = Append(@, "payout_address")]
          /\ NonceCallGoes(k, [nonceCall[k] EXCEPT !.pc = "holder"])
  /\ UNCHANGED <<walletUser, payoutAddress, created, gitHubVars>>

Holders(w) == {u \in User : payoutAddress[u] = w}

SupersedeAlone(k) == \* mutant
  /\ nonceCall[k].pc = "holder"
  /\ LET u == nonceCall[k].user  w == nonce[nonceCall[k].nonce].wallet IN
     IF Holders(w) # {} THEN NonceCallEnds(k) /\ UNCHANGED payoutAddress
     ELSE NonceCallGoes(k, [nonceCall[k] EXCEPT !.pc = "insert"]) /\ payoutAddress' = [payoutAddress EXCEPT ![u] = Nil]
  /\ UNCHANGED <<nonce, walletUser, spent, created, gitHubVars>>

\* The transaction begins: another account's address is refused, one's own unchanged
\* address too, and the nonce is gone in both cases.
ReadHolder(k) ==
  /\ nonceCall[k].pc = "holder"
  /\ LET u == nonceCall[k].user  w == nonce[nonceCall[k].nonce].wallet IN
     IF Holders(w) # {} THEN NonceCallEnds(k)
     ELSE NonceCallGoes(k, [nonceCall[k] EXCEPT !.pc = "insert", !.seen = payoutAddress[u]])
  /\ UNCHANGED <<nonce, walletUser, payoutAddress, spent, created, gitHubVars>>

\* The old row superseded and the new one inserted together; the unique indexes refuse
\* an address another account, and an account another address, has been given meanwhile.
CommitAddress(k) ==
  /\ nonceCall[k].pc = "insert" /\ NonceCallEnds(k)
  /\ LET u == nonceCall[k].user  w == nonce[nonceCall[k].nonce].wallet IN
     payoutAddress' = IF Holders(w) # {} \/ payoutAddress[u] # nonceCall[k].seen THEN payoutAddress
                      ELSE [payoutAddress EXCEPT ![u] = w]
  /\ UNCHANGED <<nonce, walletUser, spent, created, gitHubVars>>

\* A request dies or its statement fails: its open transaction never was.
NonceCallFails(k) ==
  /\ nonceCall[k].pc # "idle" /\ NonceCallEnds(k)
  /\ UNCHANGED <<nonce, walletUser, payoutAddress, spent, created, gitHubVars>>

-----------------------------------------------------------------------------
(* GitHub.                                                                     *)

NoncesStand == UNCHANGED nonceVars
CallbackGoes(k, pc) == callback' = [callback EXCEPT ![k].pc = pc]
CallbackEnds(k) == callback' = [callback EXCEPT ![k] = NoCallback]

\* LoginStart, or Start for an account that links GitHub; a state is "login" or whose.
LoginStart(s, kind) ==
  /\ oauthState[s] = "none" /\ kind \in {"login"} \cup Settler
  /\ oauthState' = [oauthState EXCEPT ![s] = kind]
  /\ NoncesStand /\ UNCHANGED <<created, gitHubId, gitHubAccount, referredBy, callback>>

\* The state is read, then deleted; whichever GitHub user comes back with it.
CallbackUnified(k, s, g) ==
  /\ callback[k].pc = "idle" /\ oauthState[s] \notin {"none", "gone"}
  /\ callback' = [callback EXCEPT ![k] = [pc |-> "delete", state |-> s, kind |-> oauthState[s], id |-> g,
                                           user |-> Nil, before |-> created]]
  /\ NoncesStand /\ UNCHANGED <<created, oauthState, gitHubId, gitHubAccount, referredBy>>

DeleteState(k) ==
  /\ callback[k].pc = "delete" /\ oauthState' = [oauthState EXCEPT ![callback[k].state] = "gone"]
  /\ IF callback[k].kind = "login" THEN CallbackGoes(k, "find")
     ELSE callback' = [callback EXCEPT ![k].pc = "account", ![k].user = callback[k].kind]
  /\ NoncesStand /\ UNCHANGED <<created, gitHubId, gitHubAccount, referredBy>>

Known(g) == {u \in created : gitHubId[u] = g}

ReferAlways(k) == \* mutant
  /\ callback[k].pc = "find"
  /\ IF Known(callback[k].id) = {} THEN CallbackGoes(k, "insert")
     ELSE \E u \in Known(callback[k].id) : callback' = [callback EXCEPT ![k].pc = "refer", ![k].user = u]
  /\ NoncesStand /\ UNCHANGED <<created, oauthState, gitHubId, gitHubAccount, referredBy>>

FindUser(k) ==
  /\ callback[k].pc = "find"
  /\ IF Known(callback[k].id) = {} THEN CallbackGoes(k, "insert")
     ELSE \E u \in Known(callback[k].id) : callback' = [callback EXCEPT ![k].pc = "account", ![k].user = u]
  /\ NoncesStand /\ UNCHANGED <<created, oauthState, gitHubId, gitHubAccount, referredBy>>

\* users.github_user_id is unique: the second of two first logins is an error.
InsertUser(k) ==
  /\ callback[k].pc = "insert"
  /\ IF Known(callback[k].id) # {} THEN CallbackEnds(k) /\ UNCHANGED <<created, gitHubId>>
     ELSE \E u \in User \ created :
            /\ created' = created \cup {u} /\ gitHubId' = [gitHubId EXCEPT ![u] = callback[k].id]
            /\ callback' = [callback EXCEPT ![k].user = u,
                                            ![k].pc = IF callback[k].state \in Referrable THEN "refer" ELSE "account"]
  /\ NoncesStand /\ UNCHANGED <<oauthState, gitHubAccount, referredBy>>

\* Best effort, for an account this callback has created.
attachReferral(k) ==
  /\ callback[k].pc = "refer" /\ CallbackGoes(k, "account")
  /\ referredBy' = [referredBy EXCEPT ![callback[k].user] = TRUE]
  /\ NoncesStand /\ UNCHANGED <<created, oauthState, gitHubId, gitHubAccount>>

\* github_accounts has one row per account and one per GitHub user.
UpsertGitHubAccount(k) ==
  /\ callback[k].pc = "account"
  /\ IF \E u \in User \ {callback[k].user} : gitHubAccount[u] = callback[k].id
     THEN CallbackEnds(k) /\ UNCHANGED gitHubAccount
     ELSE CallbackGoes(k, "id") /\ gitHubAccount' = [gitHubAccount EXCEPT ![callback[k].user] = callback[k].id]
  /\ NoncesStand /\ UNCHANGED <<created, oauthState, gitHubId, referredBy>>

\* An id another account has is left as it was.
SetGitHubId(k) ==
  /\ callback[k].pc = "id" /\ CallbackEnds(k)
  /\ gitHubId' = IF Known(callback[k].id) \ {callback[k].user} # {} THEN gitHubId
                 ELSE [gitHubId EXCEPT ![callback[k].user] = callback[k].id]
  /\ NoncesStand /\ UNCHANGED <<created, oauthState, gitHubAccount, referredBy>>

\* The exchange fails, or the request dies.
CallbackFails(k) ==
  /\ callback[k].pc # "idle" /\ CallbackEnds(k)
  /\ NoncesStand /\ UNCHANGED <<created, oauthState, gitHubId, gitHubAccount, referredBy>>

NonceNext ==
  \/ \E n \in Nonce : \/ SweepOnce(n)
                      \/ \E w \in Wallet, purpose \in {"signin", "payout_address"} : CreateNonce(n, w, purpose)
  \/ \E k \in Caller :
       \/ \E n \in Nonce : Verify(k, n) \/ \E u \in User : PostAddress(k, u, n)
       \/ ConsumeNonceAndUpsertUser(k) \/ ConsumeNonceForPurpose(k) \/ ReadHolder(k) \/ CommitAddress(k)
       \/ NonceCallFails(k)

GitHubNext ==
  \/ \E s \in OAuthState : \/ \E kind \in {"login"} \cup Settler : LoginStart(s, kind)
                           \/ \E k \in Caller, g \in Identity : CallbackUnified(k, s, g)
  \/ \E k \in Caller :
       \/ DeleteState(k) \/ FindUser(k) \/ InsertUser(k) \/ attachReferral(k) \/ UpsertGitHubAccount(k)
       \/ SetGitHubId(k) \/ CallbackFails(k)

SignInSpec == SignInInit /\ [][NonceNext \/ GitHubNext]_signInVars

-----------------------------------------------------------------------------
\* However many requests present it, and whatever else is signed in the meantime, a
\* nonce buys one thing, and the thing it was issued for.
SpentOnce ==
  \A n \in Nonce : Len(spent[n]) <= 1 /\ \A i \in DOMAIN spent[n] : spent[n][i] = nonce[n].purpose

\* No registration, refused, failed or late, leaves somebody who had a payout address
\* without one, or moves anybody else's.
DestinationKept ==
  [][\A u \in User : payoutAddress'[u] # payoutAddress[u] =>
       payoutAddress'[u] # Nil /\ \E k \in Caller : nonceCall[k].pc = "insert" /\ nonceCall[k].user = u]_signInVars

\* A referral is attached to an account that did not exist when the visitor came back
\* from GitHub, never to one that signs in again.
NewcomersOnly ==
  [][\A u \in User : referredBy'[u] # referredBy[u] =>
       \E k \in Caller : callback[k].user = u /\ u \notin callback[k].before]_signInVars
=============================================================================

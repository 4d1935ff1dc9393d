--------------------------- MODULE AuthRequestBroker ---------------------------
(***************************************************************************)
(* HTTP::AuthRequestBroker::request (src/mordor/http/auth.cpp:40-186): the *)
(* loop that sends a request, and while the answer is 401 or 407 with a  *)
(* Basic or Digest challenge, asks a credential callback for a username   *)
(* and password, authorizes the request and sends it again.  The non-     *)
(* Windows build: the Negotiate/NTLM branches are compiled out.           *)
(*                                                                         *)
(* The two callbacks (m_getCredentialsDg, m_getProxyCredentialsDg) are    *)
(* each absent, an arbitrary application callback, or                    *)
(* getCredentialsFromKeychain (auth.cpp:188-262, the OS X one mordor      *)
(* ships).  The loop body runs as three steps: the WWW credential block   *)
(* (79-116), the proxy credential block (117-156), and the send and the   *)
(* continue-or-return test (160-184).                                      *)
(*                                                                         *)
(* The Windows build adds Negotiate and NTLM: a callback may return them, *)
(* which starts a multi-request SSPI handshake (NegotiateAuth,            *)
(* src/mordor/http/negotiate.h); at the top of each later pass (51-78)    *)
(* the handshake is continued while the challenge still offers its scheme *)
(* and SSPI goes on, and the credential blocks are skipped meanwhile.     *)
(* The build is chosen in Init; getCredentialsFromKeychain is OS X only.  *)
(***************************************************************************)
EXTENDS Naturals

CONSTANTS
  Schemes,      \* schemes a challenge can offer; contains "Basic" and "Digest"
  DgKinds,      \* what a callback may be: subset of {"none", "user", "keychain"}
  MaxRequests,  \* bound on the requests the loop sends
  Builds        \* the builds checked: subset of {"posix", "windows"}

ASSUME {"Basic", "Digest"} \subseteq Schemes
ASSUME DgKinds \subseteq {"none", "user", "keychain"}
ASSUME Builds \subseteq {"posix", "windows"}

\* The schemes NegotiateAuth handles (Windows only)
NegSchemes == {"Negotiate", "NTLM"}

OK == 200
UNAUTHORIZED == 401
PROXY_AUTHENTICATION_REQUIRED == 407

Kinds == {"www", "proxy"}

\* The status that asks the callback of kind k
Challenge(k) == IF k = "www" THEN UNAUTHORIZED ELSE PROXY_AUTHENTICATION_REQUIRED

\* A response: its status and the schemes its challenge list for that
\* status offers (WWW-Authenticate for 401, Proxy-Authenticate for 407)
Responses ==
  {[status |-> OK, offers |-> {}]} \cup
  [status : {UNAUTHORIZED, PROXY_AUTHENTICATION_REQUIRED}, offers : SUBSET Schemes]

NULL == [status |-> 0, offers |-> {}]

VARIABLES
  pc,          \* "www" | "proxy" | "send" | "returned" | "asserted" | "crashed"
  prior,       \* priorRequest's response, NULL before the first request
  attempts,    \* attempts["www"] = attempts, attempts["proxy"] = proxyAttempts
  dg,          \* dg[k]: the credential callback of kind k
  calls,       \* calls[k]: how often callback k has been called
  authz,       \* authz[k]: the scheme of the Authorization / Proxy-Authorization header
  sent,        \* requests sent through parent()
  build,       \* "posix" or "windows"
  scheme,      \* the scheme out-parameter, shared by both callbacks
  nego,        \* nego[k]: negotiateAuth / negotiateProxyAuth is set
  negoScheme   \* history: the scheme each handshake was started with

vars == <<pc, prior, attempts, dg, calls, authz, sent, build, scheme, nego,
          negoScheme>>

-----------------------------------------------------------------------------
(* The credential callbacks.  A result is "none" (returned false), a      *)
(* scheme (returned true with it), or "crash" for getCredentialsFromKeychain *)
(* dereferencing a NULL priorRequest (auth.cpp:196), undefined behaviour.  *)

\* isAcceptable(challengeList, scheme): the challenge list offers it
IsAcceptable(offers, s) == s \in offers

\* Seeded bug: the keychain takes whatever scheme the challenge names first
KeychainAnyScheme(p, n) ==
  IF n # 1 THEN {"none"}
  ELSE IF p = NULL THEN {"crash"}
  ELSE {"none"} \cup p.offers

\* getCredentialsFromKeychain: only on the first retry (attempts == 1);
\* Basic before Digest; the keychain lookup may find no item (233-235)
Keychain(p, n) ==
  IF n # 1 THEN {"none"}
  ELSE IF p = NULL THEN {"crash"}
  ELSE IF IsAcceptable(p.offers, "Basic") THEN {"Basic", "none"}
  ELSE IF IsAcceptable(p.offers, "Digest") THEN {"Digest", "none"}
  ELSE {"none"}

\* What a callback of kind d, called with priorRequest p and attempt n, returns
Credentials(d, p, n) ==
  CASE d = "keychain" -> Keychain(p, n)
    [] d = "user"     -> {"none", "Basic", "Digest"} \cup
                           (IF build = "windows" THEN NegSchemes ELSE {})

-----------------------------------------------------------------------------
(* The loop body                                                           *)

Init ==
  /\ pc = "www"
  /\ prior = NULL
  /\ attempts = [k \in Kinds |-> 0]
  /\ dg \in [Kinds -> DgKinds]
  /\ calls = [k \in Kinds |-> 0]
  /\ authz = [k \in Kinds |-> "none"]
  /\ sent = 0
  /\ build \in Builds
  /\ build = "windows" => \A k \in Kinds : dg[k] # "keychain"
  /\ scheme = "none"
  /\ nego = [k \in Kinds |-> FALSE]
  /\ negoScheme = [k \in Kinds |-> "none"]

NextBlock(k) == IF k = "www" THEN "proxy" ELSE "send"

\* The last answer asked for k's credentials
Challenged(k) == prior # NULL /\ prior.status = Challenge(k)

\* Where the loop goes after callback k answered r: NULL dereference (in
\* the keychain, or of priorRequest for a pre-emptive Negotiate, 101 and
\* 140), the "caller didn't want to retry" return, the Digest assertion in
\* authorize (a pre-emptive Digest has no challenge), or the next block
AfterCall(k, r) ==
  CASE r = "crash"                 -> "crashed"
    [] r \in NegSchemes /\ prior = NULL -> "crashed"
    [] r = "none" /\ Challenged(k) -> "returned"
    [] r = "none"                  -> NextBlock(k)
    [] r = "Digest" /\ prior = NULL -> "asserted"
    [] OTHER                       -> NextBlock(k)

\* Seeded bug: ++attempts passed instead of attempts++
PreIncrement(n) == [arg |-> n + 1, next |-> n + 1]

\* Seeded bug: the callback is passed attempts but the counter is not advanced
NoIncrement(n) == [arg |-> n, next |-> n]

\* attempts++ as an argument: the callback sees n, the counter becomes n + 1
PostIncrement(n) == [arg |-> n, next |-> n + 1]

\* One credential block (79-116 for "www", 117-156 for "proxy"): on the
\* first try or after k's challenge, ask the callback with attempts++; use
\* the credentials it returns (authorize, 25-38: a Digest without a prior
\* challenge trips MORDOR_ASSERT(challenge); Negotiate or NTLM creates the
\* NegotiateAuth and takes its first step, 97-104); if it declines after
\* k's challenge, return the prior response
Ask(k) ==
  /\ pc = k
  /\ IF (prior = NULL \/ Challenged(k)) /\ dg[k] # "none"
     THEN \E r \in Credentials(dg[k], prior, PostIncrement(attempts[k]).arg) :
            /\ attempts' = [attempts EXCEPT ![k] = PostIncrement(@).next]
            /\ calls' = [calls EXCEPT ![k] = @ + 1]
            /\ pc' = AfterCall(k, r)
            /\ LET used == pc' = NextBlock(k) /\ r # "none" IN
               /\ authz' = IF used THEN [authz EXCEPT ![k] = r] ELSE authz
               /\ scheme' = IF used THEN r ELSE scheme
               /\ nego' = IF used /\ r \in NegSchemes
                          THEN [nego EXCEPT ![k] = TRUE] ELSE nego
               /\ negoScheme' = IF used /\ r \in NegSchemes
                                THEN [negoScheme EXCEPT ![k] = r] ELSE negoScheme
     ELSE /\ pc' = IF Challenged(k) THEN "returned" ELSE NextBlock(k)
          /\ UNCHANGED <<attempts, calls, authz, scheme, nego, negoScheme>>
  /\ UNCHANGED <<prior, dg, sent, build>>

\* The challenge list of k in the prior response: a 401 carries
\* WWW-Authenticate only, a 407 Proxy-Authenticate only
Offers(k) == IF Challenged(k) THEN prior.offers ELSE {}

\* NegotiateAuth::authorize (negotiate.h:27-28): whether SSPI produced a
\* next token; InitializeSecurityContext is not in the repository
NegotiateSteps == BOOLEAN

\* Seeded bug: the credential blocks run even while a handshake goes on
TopNoHandshakeGuard ==
  /\ pc = "top"
  /\ \E ok \in [Kinds -> NegotiateSteps] :
       nego' = [k \in Kinds |-> nego[k] /\ IsAcceptable(Offers(k), scheme) /\ ok[k]]
  /\ pc' = "www"
  /\ UNCHANGED <<prior, attempts, dg, calls, authz, sent, build, scheme, negoScheme>>

\* 51-78 (Windows): a handshake in progress is dropped unless the new
\* challenge offers the scheme and SSPI takes the next step; while one is
\* still going, the credential blocks are skipped
Top ==
  /\ pc = "top"
  /\ \E ok \in [Kinds -> NegotiateSteps] :
       nego' = [k \in Kinds |-> nego[k] /\ IsAcceptable(Offers(k), scheme) /\ ok[k]]
  /\ pc' = IF \E k \in Kinds : nego'[k] THEN "send" ELSE "www"
  /\ UNCHANGED <<prior, attempts, dg, calls, authz, sent, build, scheme, negoScheme>>

\* The schemes whose challenge makes the loop go round (176-181)
Continued == IF build = "windows" THEN {"Basic", "Digest"} \cup NegSchemes
             ELSE {"Basic", "Digest"}

\* The top of the loop: the Negotiate check exists only in the Windows build
LoopHead == IF build = "windows" THEN "top" ELSE "www"

\* Seeded bug: the pre-emptive pass resets the counters to 0
SendResetsToZero ==
  /\ pc = "send" /\ sent < MaxRequests
  /\ attempts' = IF prior = NULL THEN [k \in Kinds |-> 0] ELSE attempts
  /\ \E resp \in Responses :
       /\ prior' = resp
       /\ pc' = IF \E s \in Continued : IsAcceptable(resp.offers, s)
                THEN LoopHead ELSE "returned"
  /\ sent' = sent + 1
  /\ UNCHANGED <<dg, calls, authz, build, scheme, nego, negoScheme>>

\* 160-184: finish the prior request, or after the pre-emptive pass set
\* attempts = proxyAttempts = 1; send through parent(); go round again if
\* the answer is 401 or 407 with a Basic or Digest challenge, else return it
Send ==
  /\ pc = "send" /\ sent < MaxRequests
  /\ attempts' = IF prior = NULL THEN [k \in Kinds |-> 1] ELSE attempts
  /\ \E resp \in Responses :
       /\ prior' = resp
       /\ pc' = IF \E s \in Continued : IsAcceptable(resp.offers, s)
                THEN LoopHead ELSE "returned"
  /\ sent' = sent + 1
  /\ UNCHANGED <<dg, calls, authz, build, scheme, nego, negoScheme>>

Next == Top \/ Ask("www") \/ Ask("proxy") \/ Send

Spec == Init /\ [][Next]_vars /\ WF_vars(Next)

-----------------------------------------------------------------------------
(* Properties                                                              *)

\* The schemes a callback may return in this build (MORDOR_ASSERT, 87-95)
Accepted == IF build = "windows" THEN {"Basic", "Digest"} \cup NegSchemes
            ELSE {"Basic", "Digest"}

TypeOK ==
  /\ pc \in {"top", "www", "proxy", "send", "returned", "asserted", "crashed"}
  /\ prior \in Responses \cup {NULL}
  /\ attempts \in [Kinds -> 0..MaxRequests + 1]
  /\ dg \in [Kinds -> DgKinds]
  /\ calls \in [Kinds -> 0..MaxRequests + 1]
  /\ authz \in [Kinds -> {"none"} \cup Accepted]
  /\ sent \in 0..MaxRequests
  /\ build \in Builds
  /\ scheme \in {"none", "Basic", "Digest"} \cup NegSchemes
  /\ nego \in [Kinds -> BOOLEAN]
  /\ negoScheme \in [Kinds -> {"none"} \cup NegSchemes]

\* The attempt number a callback is given (attempts++, and the reset to 1
\* after the pre-emptive pass, auth.cpp:85, 124, 165-166) is the number of
\* times that callback was called before, once the pre-emptive pass is
\* over: getCredentialsFromKeychain relies on attempts == 1 meaning "the
\* first retry after a real challenge".
AttemptsCountCalls ==
  \A k \in Kinds :
    (dg[k] # "none" /\ (sent > 0 \/ calls[k] > 0)) => attempts[k] = calls[k]

\* With getCredentialsFromKeychain (or no callback) on both sides, the
\* loop never dereferences a NULL priorRequest (auth.cpp:196) nor reaches
\* the Digest assertion (auth.cpp:33).
KeychainSafe ==
  (\A k \in Kinds : dg[k] # "user") => pc \notin {"crashed", "asserted"}

\* With getCredentialsFromKeychain (or no callback) on both sides, the
\* loop gives up after one retry per challenge kind: the pre-emptive
\* request, one WWW retry and one proxy retry, at most three requests,
\* whatever the server answers.
KeychainBounded ==
  (\A k \in Kinds : dg[k] # "user") => sent <= 3

\* Windows: a Negotiate or NTLM handshake in progress is only ever
\* continued with the scheme it was started with.  The callbacks share
\* one scheme out-parameter (auth.cpp:45) that the loop top reads for
\* both handshakes (57, 67); it must not be overwritten, by the other
\* kind's callback or by a new credential, while a handshake is going on.
NegotiateContinuesOwnScheme ==
  \A k \in Kinds : nego[k] => scheme = negoScheme[k] /\ authz[k] = negoScheme[k]
=============================================================================

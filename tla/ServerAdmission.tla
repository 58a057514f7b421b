--------------------------- MODULE ServerAdmission ---------------------------
(***************************************************************************)
(* The server from its start to the OpenResult of a call: Config::load,    *)
(* apply_env and parse_tokens of server/src/config.rs, main of             *)
(* server/src/main.rs, TokenAuth of server/src/auth.rs, and the dial of    *)
(* TargetPolicy.                                                           *)
(*                                                                         *)
(* A token is its text and whether blanks surround it in the place it was  *)
(* read from: TOML keeps them, TOKENS and the header are trimmed.  After   *)
(* the start nothing of the server changes, so one call is enough.         *)
(***************************************************************************)
EXTENDS TargetPolicy

CONSTANTS
  TEXTS,        \* texts of tokens, without blanks around
  HEADERS,      \* authorization metadata of the calls
  SETTINGS      \* configuration files and environments the server is started with

BLANK == "" \* the text of an empty or blank token

Tokens == [text : TEXTS \cup {BLANK}, pad : BOOLEAN]

\* The authorization metadata: none, not ASCII, or a value after a scheme.
Headers ==
  [scheme : {"missing", "binary", "Bearer", "bearer", "BEARER", "bare"},
   text : TEXTS \cup {BLANK}, pad : BOOLEAN]

NoHeader == [scheme |-> "missing", text |-> BLANK, pad |-> FALSE]

ASSUME AdmissionAssumption ==
  /\ BLANK \notin TEXTS
  /\ HEADERS \subseteq Headers
  /\ SETTINGS \subseteq
       [file : {"none", "bad", "ok"}, listen : {"bad", "ok"}, tokens : SUBSET Tokens,
        cert : BOOLEAN, key : BOOLEAN, deny_private_ip : BOOLEAN, allowed_ports : SUBSET (0..MAX_PORT),
        LISTEN : {"unset", "blank", "bad", "ok"}, TOKENS : {<<>>} \cup [1..1 -> SUBSET Tokens]]

VARIABLES
  boot,         \* how far the server is
  settings,     \* what it was started with
  tokens,       \* TokenAuth.tokens
  header        \* the authorization metadata of the call

vars == <<boot, settings, tokens, header, dialVars>>

TypeOK ==
  /\ boot \in {"starting", "failed", "plaintext", "tls"}
  /\ settings \in SETTINGS
  /\ tokens \subseteq Tokens
  /\ header \in HEADERS \cup {NoHeader}
  /\ stage \in {"none", "call", "unauthenticated", "first", "open", "refused"} \cup DialStages
  /\ boot \in {"starting", "failed"} => stage = "none"
  /\ DialTypeOK

Init ==
  /\ boot = "starting" /\ settings \in SETTINGS
  /\ tokens = {} /\ header = NoHeader
  /\ stage = "none" /\ policy = [deny_private_ip |-> TRUE, allowed_ports |-> {}]
  /\ open = NoOpen /\ addrs = <<>> /\ tried = <<>> /\ peer = NO_ADDR /\ delivered = "none"

-----------------------------------------------------------------------------
(***************************************************************************)
(* Config::load: the file or Config::default(), then the environment.      *)
(***************************************************************************)
DefaultConfig(s) ==
  [s EXCEPT !.listen = "ok", !.tokens = {}, !.cert = FALSE, !.key = FALSE,
            !.deny_private_ip = TRUE, !.allowed_ports = {}]

Read(s) == IF s.file = "none" THEN DefaultConfig(s) ELSE s

parse_tokens(raw) == {[text |-> t.text, pad |-> FALSE] : t \in {u \in raw : u.text # BLANK}}

\* Mutation: TOKENS adds to the file.
EnvTokensAdded(c) == c.tokens \cup (IF c.TOKENS = <<>> THEN {} ELSE parse_tokens(c.TOKENS[1]))

\* apply_env: TOKENS replaces the tokens of the file.
EnvTokens(c) == IF c.TOKENS = <<>> THEN c.tokens ELSE parse_tokens(c.TOKENS[1])

EnvListen(c) == IF c.LISTEN = "unset" THEN c.listen ELSE c.LISTEN

\* main: what makes it return an error before it listens.  An empty TOKENS is
\* refused by parse_tokens, an empty file by TokenAuth::new.
Startable(c) ==
  /\ c.file # "bad"
  /\ EnvListen(c) = "ok"
  /\ EnvTokens(c) # {}
  /\ 0 \notin c.allowed_ports

\* TLS needs both the certificate and the key; with one of them it is off.
Transport(c) == IF c.cert /\ c.key THEN "tls" ELSE "plaintext"

Start ==
  /\ boot = "starting"
  /\ LET c == Read(settings) IN
       /\ Startable(c)
       /\ boot' = Transport(c)
       /\ tokens' = EnvTokens(c)
       /\ policy' = [deny_private_ip |-> c.deny_private_ip, allowed_ports |-> c.allowed_ports]
  /\ UNCHANGED <<settings, header, stage, open, addrs, tried, peer, delivered>>

\* As above, or the certificate cannot be read or the address not be bound.
StartFails ==
  /\ boot = "starting"
  /\ boot' = "failed"
  /\ UNCHANGED <<settings, tokens, header, dialVars>>

-----------------------------------------------------------------------------
\* A client calls tunnel(); its first frame is an Open.
Call(h, o) ==
  /\ boot \in {"plaintext", "tls"} /\ stage = "none"
  /\ stage' = "call" /\ header' = h /\ open' = o
  /\ UNCHANGED <<boot, settings, tokens, policy, addrs, tried, peer, delivered>>

\* The token in a header; an unknown scheme stays part of it and matches nothing.
HeaderText(h) == IF h.scheme \in {"Bearer", "bearer", "bare"} THEN h.text ELSE BLANK

authenticate(h) == HeaderText(h) # BLANK /\ [text |-> HeaderText(h), pad |-> FALSE] \in tokens

Authenticate ==
  /\ stage = "call"
  /\ stage' = IF authenticate(header) THEN "first" ELSE "unauthenticated"
  /\ UNCHANGED <<boot, settings, tokens, header, policy, open, addrs, tried, peer, delivered>>

FirstFrame ==
  /\ stage = "first"
  /\ stage' = "opened"
  /\ UNCHANGED <<boot, settings, tokens, header, policy, open, addrs, tried, peer, delivered>>

DialStep == Dial /\ UNCHANGED <<boot, settings, tokens, header>>

Handle == Authenticate \/ FirstFrame \/ DialStep

Next ==
  \/ Start \/ StartFails
  \/ \E h \in HEADERS, o \in Opens : Call(h, o)
  \/ Handle

Spec == Init /\ [][Next]_vars

\* The handler runs: every connect is under connect_timeout, the system resolver
\* answers, and a target takes its first_payload or breaks the connection.  The
\* code has no timeout of its own for the last two.
FairSpec == Spec /\ WF_vars(Handle)

-----------------------------------------------------------------------------
\* Who is admitted: exactly the callers with a token the operator meant to be
\* valid.  If TOKENS is set these are its entries and the tokens of the file are
\* revoked; blanks are forgiven in TOKENS and in the header but not in the file,
\* and an empty entry admits nobody.
AdmittedExactly ==
  stage \notin {"none", "call"} =>
    LET sent == header.scheme \in {"Bearer", "bearer", "bare"} /\ header.text # BLANK
        meant == IF settings.TOKENS # <<>>
                 THEN \E t \in settings.TOKENS[1] : t.text = header.text
                 ELSE /\ settings.file = "ok"
                      /\ [text |-> header.text, pad |-> FALSE] \in settings.tokens
    IN  stage # "unauthenticated" <=> sent /\ meant

\* Every call is answered: refused at the door, or by an OpenResult.
DialEnds == stage = "call" ~> stage \in {"unauthenticated", "open", "refused"}

-----------------------------------------------------------------------------
(***************************************************************************)
(* The state of TunnelServer that a call corresponds to.                   *)
(***************************************************************************)
OpenFrame == [type |-> "Open", n |-> IF open.payload THEN 1 ELSE 0]

ReqOf ==
  [q |-> IF stage \in {"call", "first", "unauthenticated"} THEN <<OpenFrame>> ELSE <<>>,
   end |-> "open"]

RspOf ==
  [q |-> IF stage \in {"open", "refused"}
         THEN <<[type |-> "OpenResult", n |-> IF stage = "open" THEN 1 ELSE 0]>> ELSE <<>>,
   end |-> IF stage = "unauthenticated" THEN "err" ELSE "open"]

TgtOf ==
  [sent |-> 0, taken |-> 0, fin |-> FALSE, gone |-> FALSE, seen |-> 0,
   got |-> IF stage = "open" /\ delivered = "all" THEN <<1>> ELSE <<>>]

SpcOf ==
  CASE stage \in {"none", "call"} -> "auth"
    [] stage = "first" -> "first"
    [] stage \in DialStages -> "dial"
    [] stage = "open" -> "relay"
    [] OTHER -> "ended"

HeldOf == IF stage \in DialStages THEN OpenFrame ELSE [type |-> "Empty", n |-> 0]

T2gOf == IF stage = "open" THEN "run" ELSE "none"

WhyOf ==
  CASE stage = "unauthenticated" -> "auth"
    [] stage = "refused" -> "refused"
    [] OTHER -> "none"

D == INSTANCE TunnelServer WITH
  OUTBOUND_QUEUE <- 1, SOCK_BUF <- 1, req <- ReqOf, rsp <- RspOf, tgt <- TgtOf, spc <- SpcOf,
  held <- HeldOf, t2g <- T2gOf, wshut <- "open", why <- WhyOf

\* The call is handled as TunnelServer says: one of its three steps at a time,
\* the whole dial being one, with one OpenResult that is a success only when the
\* whole first_payload was written.
ImplementsDial ==
  [][\/ stage = "none"
     \/ D!ServerAuth \/ D!ServerFirstFrame \/ D!ServerDial]_<<D!serverVars, D!streamVars>>
=============================================================================

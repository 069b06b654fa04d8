-------------------------------- MODULE HttpGate --------------------------------
(***************************************************************************)
(* The configuration of the server and the gate before its /rpc endpoint   *)
(* (internal/server/config.go and security.go), as operators: which        *)
(* settings let the server start, and which requests reach a tool.         *)
(*                                                                         *)
(* An authority is a host as it was spelled and a port; the spellings of   *)
(* CanonicalHost stand for DNS case, the forms of an IP address and the    *)
(* malformed hosts.  A list that is not set is empty; one that is set to   *)
(* a blank text has one empty entry.                                       *)
(***************************************************************************)
EXTENDS Integers, Sequences, FiniteSets

NoPort == -1      \* a port that was left out
Unset == "unset"  \* a setting that was left out
Bad == [host |-> "bad", port |-> 0]
NoAuthority == [host |-> "", port |-> NoPort]

CanonicalHost(spelled) ==
    CASE spelled \in {"localhost", "LOCALHOST"}                   -> "localhost"
      [] spelled \in {"127.0.0.1", "::ffff:127.0.0.1"}            -> "127.0.0.1"
      [] spelled \in {"proxy.example", "Proxy.Example"}           -> "proxy.example"
      [] spelled \in {"", "localhost.", "user@localhost", "-proxy"} -> "bad"
      [] OTHER                                                    -> spelled

ValidPort(port) == port \in 1..65535

\* Mutant: the host is compared as it was spelled.
SplitAsSpelled(authority, defaultPort) ==
    LET port == IF authority.port = NoPort THEN defaultPort ELSE authority.port
    IN  IF CanonicalHost(authority.host) = "bad" \/ ~ValidPort(port)
        THEN Bad ELSE [host |-> authority.host, port |-> port]

\* Where a port is required, the default port is 0.  Only with an explicit
\* port may the host be empty: the address of every interface.
SplitAuthority(authority, defaultPort) ==
    LET host == IF authority.host = "" THEN "" ELSE CanonicalHost(authority.host)
        port == IF authority.port = NoPort THEN defaultPort ELSE authority.port
    IN  IF host = "bad" \/ ~ValidPort(port) \/ authority = NoAuthority
        THEN Bad ELSE [host |-> host, port |-> port]

\* "null", or anything else that is not an origin, has the scheme "none".
CanonicalOrigin(origin) ==
    LET default == IF origin.scheme = "https" THEN 443 ELSE 80
        port == IF origin.port = NoPort THEN default ELSE origin.port
        host == CanonicalHost(origin.host)
    IN  IF origin.scheme \notin {"http", "https"} \/ ~ValidPort(port) \/ host = "bad"
        THEN Bad ELSE [scheme |-> origin.scheme, host |-> host, port |-> port]

ValidToken(token) == token \notin {"", "not a token"}

Entries(list) == {list[i] : i \in DOMAIN list}
-------------------------------------------------------------------------------
(* Which settings let the server start. *)

HasBlankEntryOnly(list) == Len(list) = 1 /\ list[1].host = ""

\* Settings of the listener that are set but blank or malformed are errors,
\* except in stdio mode, which never listens.
SettingsRefused(env) ==
    \/ env.transport \notin {"http", "http-stateless", "stdio"}
    \/ env.kubernetesCredentials /\ ~env.kubernetes
    \/ /\ env.transport # "stdio"
       /\ \/ env.token # Unset /\ ~ValidToken(env.token)
          \/ env.allowUnauthenticated \notin {Unset, "true", "false"}
          \/ HasBlankEntryOnly(env.hosts) \/ HasBlankEntryOnly(env.origins)
    \/ env.transport = "http-stateless" /\ env.sessionsInStateless
    \/ env.transport = "stdio" /\ env.audit /\ env.auditToStdout

Addr(env) == SplitAuthority(env.addr, 0)

IsLoopback(host) == host \in {"localhost", "127.0.0.1", "::1"}

AllowedHosts(env) ==
    IF env.hosts # <<>> THEN {SplitAuthority(entry, 0) : entry \in Entries(env.hosts)}
    ELSE IF IsLoopback(Addr(env).host)
         THEN {[host |-> host, port |-> Addr(env).port] : host \in {"localhost", "127.0.0.1", "::1"}}
         ELSE {Addr(env)}

AllowedOrigins(env) == {CanonicalOrigin(entry) : entry \in Entries(env.origins)}

\* Anything but the loopback needs a token, or the word that a proxy asks for
\* one; the address of every interface says nothing of the hosts it serves.
ListenerRefused(env) ==
    \/ Addr(env) = Bad
    \/ ~IsLoopback(Addr(env).host) /\ env.token = Unset /\ env.allowUnauthenticated # "true"
    \/ env.hosts = <<>> /\ Addr(env).host \in {"", "0.0.0.0", "::"}
    \/ Bad \in AllowedHosts(env) \/ Bad \in AllowedOrigins(env)
    \/ env.hosts # <<>> /\ Cardinality(AllowedHosts(env)) < Len(env.hosts)
    \/ Cardinality(AllowedOrigins(env)) < Len(env.origins)

\* ARGO_BASE_URL must not carry credentials, a query or a fragment.
StartRefused(env) ==
    \/ SettingsRefused(env)
    \/ env.transport # "stdio" /\ ListenerRefused(env)
    \/ env.argo = "with credentials"
-------------------------------------------------------------------------------
(* Which requests reach a tool.  The listener itself never speaks TLS, so the *)
(* port that a Host header leaves out is 80.                                  *)

HostRefused(env, r) == SplitAuthority(r.host, 80) \notin AllowedHosts(env) \ {Bad}

DirectOrigin(r) ==
    LET host == SplitAuthority(r.host, 80)
    IN  [scheme |-> "http", host |-> host.host, port |-> host.port]

OriginRefused(env, r) ==
    \/ Len(r.origins) > 1
    \/ /\ Len(r.origins) = 1
       /\ CanonicalOrigin(r.origins[1]) \notin (AllowedOrigins(env) \cup {DirectOrigin(r)}) \ {Bad}

\* Mutant: an Authorization header that repeats is taken at its first value.
FirstCredential(env, r) ==
    /\ env.token # Unset
    /\ r.authorization = <<>> \/ r.authorization[1] # [scheme |-> "Bearer", token |-> env.token]

\* The digests of the tokens are compared; the scheme in any case.
CredentialRefused(env, r) ==
    /\ env.token # Unset
    /\ \/ Len(r.authorization) # 1
       \/ r.authorization[1].scheme \notin {"Bearer", "bearer"}
       \/ r.authorization[1].token # env.token

Admission(env, r) ==
    IF HostRefused(env, r) \/ OriginRefused(env, r) THEN "forbidden"
    ELSE IF CredentialRefused(env, r) THEN "unauthorized" ELSE "admitted"
===============================================================================

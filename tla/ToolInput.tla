-------------------------------- MODULE ToolInput --------------------------------
(***************************************************************************)
(* How a tool's arguments become its payload (gen/mcp_argo/payloads.go     *)
(* with the helpers of adapter_server.go) and what a caller is told when   *)
(* they do not.                                                            *)
(*                                                                         *)
(* An argument is a pair of its JSON type and its value, so that a text    *)
(* and a number are never compared.  A schema has the required fields in   *)
(* the order they are asked for, the optional ones, the values allowed     *)
(* where they are limited, and the defaults.                               *)
(***************************************************************************)
EXTENDS Integers, Sequences, SequencesExt

Null == <<"null", "null">>
String(text)  == <<"string", text>>
Number(n)     == <<"number", n>>
Boolean(flag) == <<"boolean", flag>>
Object(map)   == <<"object", map>>

KiB(n) == 1024 * n
MiB(n) == KiB(1024 * n)

Nothing == <<>>  \* no arguments, and no limits or defaults

Schema(required, optional, limits, defaults) ==
    [required |-> required, fields |-> ToSet(required) \cup optional,
     limits |-> limits, defaults |-> defaults]

FieldType(field) ==
    CASE field \in {"limit", "offset", "offset_bytes", "max_bytes", "max_lines",
                    "duration_seconds", "poll_interval_seconds"}      -> "number"
      [] field \in {"suspended", "suspend", "dry_run", "restart_successful",
                    "cluster_scope", "memoized"}                      -> "boolean"
      [] field = "parameters"                                         -> "object"
      [] OTHER                                                        -> "string"

\* The strict decoder knows the names and the types; a null passes it.
Undecodable(schema, given) ==
    \E field \in DOMAIN given :
        \/ field \notin schema.fields
        \/ given[field] # Null /\ given[field][1] # FieldType(field)

\* The places of the required fields that are not given.
Missing(schema, given) ==
    {i \in DOMAIN schema.required :
        schema.required[i] \notin DOMAIN given \/ given[schema.required[i]] = Null}

\* The schema has no null and keeps to the limits.
OutOfSchema(schema, given) ==
    \E field \in DOMAIN given :
        \/ given[field] = Null
        \/ field \in DOMAIN schema.limits /\ given[field][2] \notin schema.limits[field]

\* The first refusal: a field that is missing by its name, anything else as a whole.
InputRefusal(schema, given) ==
    IF Undecodable(schema, given) THEN "arguments"
    ELSE IF Missing(schema, given) # {} THEN schema.required[Min(Missing(schema, given))]
    ELSE IF OutOfSchema(schema, given) THEN "arguments" ELSE "none"

\* What the handler gets: the defaults stand for what is left out.
Payload(schema, given, omitted) ==
    [field \in schema.fields |->
        IF field \in DOMAIN given THEN given[field][2]
        ELSE IF field \in DOMAIN schema.defaults THEN schema.defaults[field] ELSE omitted]

\* What a caller makes of the hint "Include required field f. Example: ..." or
\* "Provide valid tool arguments. Example: ...".
Corrected(example, given, refusal) ==
    IF refusal = "arguments" THEN example
    ELSE IF refusal \notin DOMAIN example THEN given
    ELSE [field \in DOMAIN given \cup {refusal} |->
             IF field = refusal THEN example[field] ELSE given[field]]
==================================================================================

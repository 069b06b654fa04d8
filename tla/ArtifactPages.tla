---------------------------- MODULE ArtifactPages ----------------------------
(***************************************************************************)
(* read_workflow_artifact and the caller who follows next_offset: the      *)
(* bounds, the lookup of the declared artifact, the redirects Argo answers *)
(* with, and one page of text per call.                                    *)
(***************************************************************************)
EXTENDS ArtifactText

CONSTANTS
    Contents,      \* the artifacts that may be retained
    Offsets,       \* the offsets and
    PageSizes,     \* page sizes callers ask for
    MaxPage,       \* the largest page (256 KiB in the code)
    MaxOffset,     \* the largest offset (16 MiB in the code)
    MaxHops,       \* redirects followed per read (5 in the code)
    MaxCalls       \* bound on the caller's tool calls

ASSUME ArtifactPagesAssumption ==
    /\ \A c \in Contents : c \in Seq(Byte) /\ Encoding(c)
    /\ Offsets \subseteq Int /\ PageSizes \subseteq Int
    /\ MaxPage \in Nat /\ MaxOffset \in Nat /\ MaxHops \in Nat /\ MaxCalls \in Nat

VARIABLES
    content,   \* the retained artifact: it never changes
    pc,        \* the running call: idle, lookup, fetch
    offset,    \* its arguments,
    maxBytes,
    hops,      \* the redirects followed
    outcome,   \* how the last call ended: none, page, refused or failed
    page,      \* history: where the last page began and ended
    text,      \* the caller: the pages joined from the first one on,
    next,      \* the offset to go on from,
    complete,  \* and whether has_more has been false
    calls

call == <<offset, maxBytes, hops>>
caller == <<text, next, complete>>
vars == <<content, pc, call, outcome, page, caller, calls>>
-------------------------------------------------------------------------------
Init ==
    /\ content \in Contents
    /\ pc = "idle" /\ outcome = "none"
    /\ offset = 0 /\ maxBytes = 0 /\ hops = 0
    /\ page = [from |-> 0, to |-> 0]
    /\ text = << >> /\ next = 0 /\ complete = FALSE
    /\ calls = 0

End(how) == pc' = "idle" /\ outcome' = how

\* The smallest page holds any character.
OutOfRange(o, n) == o < 0 \/ o > MaxOffset \/ n < UTFMax \/ n > MaxPage

\* A call goes on from next_offset or starts anywhere.
Call(o, n) ==
    /\ pc = "idle" /\ calls < MaxCalls
    /\ calls' = calls + 1
    /\ offset' = o /\ maxBytes' = n /\ hops' = 0
    /\ IF OutOfRange(o, n) THEN End("refused") ELSE pc' = "lookup" /\ outcome' = "none"
    /\ UNCHANGED <<content, page, caller>>

\* The workflow declares the artifact on the node, or the call ends here.
Lookup ==
    /\ pc = "lookup"
    /\ pc' = "fetch"
    /\ UNCHANGED <<content, call, outcome, page, caller, calls>>

\* The workflow, the node or the artifact is not there, or Argo fails.
Fail ==
    /\ pc \in {"lookup", "fetch"}
    /\ End("failed")
    /\ UNCHANGED <<content, call, page, caller, calls>>

HopsLeft == hops < MaxHops

\* A redirect is followed within the origin and the limit.
Redirect(sameOrigin) ==
    /\ pc = "fetch"
    /\ IF ~HopsLeft \/ ~sameOrigin
       THEN End("failed") /\ UNCHANGED hops
       ELSE hops' = hops + 1 /\ UNCHANGED <<pc, outcome>>
    /\ UNCHANGED <<content, offset, maxBytes, page, caller, calls>>

\* A continuation no later call would accept.
PastMaximum(p) == p.more /\ p.end > MaxOffset

\* The content arrives, with or without a declared length.
Answer(declared) ==
    LET data    == Data(content, offset, maxBytes)
        bounded == Bounded(content, offset, maxBytes, declared)
        p       == Page(data, offset, maxBytes, bounded)
    IN /\ pc = "fetch"
       /\ IF PageRefused(data, offset, maxBytes, bounded) \/ PastMaximum(p)
          THEN End("refused") /\ UNCHANGED <<page, caller>>
          ELSE /\ End("page")
               /\ page' = [from |-> offset, to |-> p.end]
               /\ IF offset = next /\ ~complete
                  THEN /\ text' = text \o p.text
                       /\ next' = IF p.more THEN p.end ELSE next
                       /\ complete' = ~p.more
                  ELSE UNCHANGED caller
       /\ UNCHANGED <<content, call, calls>>

Next ==
    \/ \E o \in Offsets \cup {next}, n \in PageSizes : Call(o, n)
    \/ Lookup
    \/ Fail
    \/ \E sameOrigin \in BOOLEAN : Redirect(sameOrigin)
    \/ \E declared \in BOOLEAN : Answer(declared)

Spec == Init /\ [][Next]_vars
-------------------------------------------------------------------------------
\* The type of every variable; a read follows at most MaxHops redirects.
TypeOK ==
    /\ content \in Contents
    /\ pc \in {"idle", "lookup", "fetch"}
    /\ offset \in Int /\ maxBytes \in Int /\ hops \in 0..MaxHops
    /\ outcome \in {"none", "page", "refused", "failed"}
    /\ page \in [from : Nat, to : Nat]
    /\ text \in Seq(Byte) /\ next \in Nat /\ complete \in BOOLEAN
    /\ calls \in 0..MaxCalls

\* The variables keep their types.  The pages a caller joins by next_offset, with any page size for each and
\* any failures between, are the artifact up to there; has_more is false
\* exactly at its end, and only for an artifact that is text throughout.
PagesRejoin ==
    /\ TypeOK
    /\ text = SubSeq(content, 1, Len(text))
    /\ complete => text = content /\ IsText(content)
    /\ ~complete => next = Len(text) /\ (next > 0 => next < Len(content))

\* Wherever a page starts, it is whole characters, and it is empty only at the
\* end of the artifact: a caller who follows next_offset always gets on.
PagesAreWholeText ==
    outcome = "page" =>
        /\ Boundary(content, page.from) /\ Boundary(content, page.to)
        /\ page.to <= page.from + maxBytes
        /\ page.from = page.to => page.to = Len(content)

\* A text whose every continuation is a legal offset can be read: no page of
\* legal size that goes on from next_offset is ever refused, and every
\* continuation given is one the tool accepts.
TextIsReadable ==
    /\ next <= MaxOffset
    /\ outcome = "refused" /\ IsText(content) /\ Len(content) <= MaxOffset + 1 =>
          OutOfRange(offset, maxBytes) \/ offset > Len(content) \/ ~Boundary(content, offset)
===============================================================================

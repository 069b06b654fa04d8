----------------------------- MODULE WorkflowLogs -----------------------------
(***************************************************************************)
(* get_workflow_logs: the live log stream, the retained log artifacts it   *)
(* falls back to, the byte budget both share, and the result built from    *)
(* what was collected.  Nodes are numbered in the order of their IDs, and  *)
(* a node stands for its pod.  What the live pods and the artifacts hold   *)
(* is chosen when the call first asks for it; it does not change in a call.*)
(***************************************************************************)
EXTENDS ArtifactText, KeyOrder

CONSTANTS
    Requests,      \* the requests callers make
    Streams,       \* the live logs: sequences of frames
    Retained,      \* the contents of log artifacts
    Nodes,         \* the nodes of a workflow, 1..n
    MaxNodes,      \* nodes read per call (20 in the code)
    MinBudget,     \* max_bytes (1024 and 4 MiB in the code)
    MaxBudget,
    Label          \* the bytes "[pod] " before a rendered line

Unset == 0           \* no pod, no node, no search term, no line limit

Request == [source : {"auto", "live", "archive"}, pod : Nodes \cup {Unset}, node : Nat,
            archived : BOOLEAN, max : Int, lines : Int, search : Nodes \cup {Unset}]
Frame == [kind : {"entry", "blank", "error"}, pod : Nodes, line : Seq(Byte), size : Nat \ {0}]

ASSUME WorkflowLogsAssumption ==
    /\ Nodes \in {1..n : n \in Nodes}
    /\ Requests \subseteq Request
    /\ \A s \in Streams : s \in Seq(Frame)
    /\ \A r \in Retained : r \in Seq(Byte) /\ Encoding(r)
    /\ MaxNodes \in Nat /\ MinBudget \in Nat /\ MaxBudget \in Nat
    /\ MinBudget >= UTFMax
    /\ Label \in Seq(Byte)

VARIABLES
    req,       \* the request
    stage,     \* receive, live, lookup, read, build, done
    live,      \* what the live pods answer, once asked: frames,
    gone,      \* or 404
    declared,  \* the nodes that declare the log artifact, once looked up,
    retained,  \* and what it holds
    queue,     \* the nodes still to be read
    remaining, \* of the byte budget
    entries,   \* what has been collected: the pod and the line of each
    truncated,
    source,    \* of the entries
    answer,    \* none, result, refused, failed
    shown      \* the rendered logs and the number of lines they are said to hold

world == <<live, gone, declared, retained>>
logsVars == <<req, stage, world, queue, remaining, entries, truncated, source, answer, shown>>
-------------------------------------------------------------------------------
Newline == [kind |-> "newline", at |-> 1, of |-> 1]

\* The lines of a text, empty ones left out.
LineStarts(t) == {i \in DOMAIN t : t[i].kind # "newline" /\ (i = 1 \/ t[i - 1].kind = "newline")}
LineFrom(t, i) ==
    LET ends == {j \in i..Len(t) : j = Len(t) \/ t[j + 1].kind = "newline"}
    IN SubSeq(t, i, Min(ends))
Lines(t) == LET starts == Sorted(LineStarts(t))
            IN [k \in DOMAIN starts |-> LineFrom(t, starts[k])]

EntriesOf(node, t) == LET ls == Lines(t) IN [k \in DOMAIN ls |-> [pod |-> node, line |-> ls[k]]]

Size(frames) ==
    LET size[n \in 0..Len(frames)] == IF n = 0 THEN 0 ELSE size[n - 1] + frames[n].size
    IN size[Len(frames)]

LogsInit ==
    /\ req \in Requests
    /\ stage = "receive" /\ answer = "none" /\ source = "live"
    /\ live = << >> /\ gone = FALSE /\ declared = {} /\ retained = << >>
    /\ queue = << >> /\ remaining = 0 /\ entries = << >> /\ truncated = FALSE
    /\ shown = [text |-> << >>, returned |-> 0]

Finish(how) == stage' = "done" /\ answer' = how

BudgetRefused(n) == n < MinBudget \/ n > MaxBudget

Invalid(r) ==
    \/ BudgetRefused(r.max)
    \/ r.lines < 0
    \/ r.pod # Unset /\ r.node # Unset
    \/ r.source = "live" /\ (r.archived \/ r.node # Unset)
    \/ (r.source = "archive" \/ r.archived \/ r.node # Unset) /\ r.pod # Unset

FromArchive(r) == r.source = "archive" \/ r.archived \/ r.node # Unset

Receive ==
    /\ stage = "receive"
    /\ IF Invalid(req)
       THEN Finish("refused")
       ELSE stage' = (IF FromArchive(req) THEN "lookup" ELSE "live") /\ UNCHANGED answer
    /\ UNCHANGED <<req, world, queue, remaining, entries, truncated, source, shown>>

Fits(frames) == Size(frames) <= req.max

\* The frames that fit into the budget, framing included.
CompleteFrames(frames) ==
    SubSeq(frames, 1, Max({n \in 0..Len(frames) : Fits(SubSeq(frames, 1, n))}))

OfPod(frames) ==
    IF req.pod = Unset THEN frames ELSE At(frames, {i \in DOMAIN frames : frames[i].pod = req.pod})

Decoded(frames) == LET es == At(frames, {i \in DOMAIN frames : frames[i].kind = "entry"})
                   IN [k \in DOMAIN es |-> [pod |-> es[k].pod, line |-> es[k].line]]

\* Mutant: a cut stream without a complete entry counts as an empty one.
ErrorFrameOnly(kept, cut) == \E i \in DOMAIN kept : kept[i].kind = "error"

\* An error frame, or no entry within the budget though there is more.
StreamFailed(kept, cut) ==
    \/ \E i \in DOMAIN kept : kept[i].kind = "error"
    \/ cut /\ Decoded(kept) = << >>

\* Falling back cannot keep the choice of a pod.
FallBack == IF req.pod # Unset THEN Finish("refused") ELSE stage' = "lookup" /\ UNCHANGED answer

\* The live stream is read up to the budget and a byte.
ReadLive(frames) ==
    LET cut  == ~Fits(frames)
        kept == CompleteFrames(frames)
        got  == Decoded(kept)
    IN /\ stage = "live"
       /\ live' = frames
       /\ IF StreamFailed(kept, cut)
          THEN Finish("failed") /\ UNCHANGED <<entries, truncated>>
          ELSE IF got = << >> /\ req.source = "auto"
          THEN FallBack /\ UNCHANGED <<entries, truncated>>
          ELSE /\ stage' = "build" /\ entries' = got /\ truncated' = cut
               /\ UNCHANGED answer
       /\ UNCHANGED <<req, gone, declared, retained, queue, remaining, source, shown>>

\* The workflow or its pods are gone: 404.
LiveNotFound ==
    /\ stage = "live"
    /\ gone' = TRUE
    /\ IF req.source = "live" THEN Finish("failed") ELSE FallBack
    /\ UNCHANGED <<req, live, declared, retained, queue, remaining, entries, truncated, source, shown>>

\* Any other failure of a request ends the call.
RequestFails ==
    /\ stage \in {"live", "lookup", "read"}
    /\ Finish("failed")
    /\ UNCHANGED <<req, world, queue, remaining, entries, truncated, source, shown>>

\* Mutant: nodes past the limit are left out without a word.
NeverTooMany(matching) == FALSE

TooMany(matching) == Len(matching) > MaxNodes

Wanted(D) == IF req.node = Unset THEN D ELSE D \cap {req.node}

\* The workflow's nodes: the one asked for, or those that declare the logs.
FindNodes(D, contents) ==
    LET matching == Sorted(Wanted(D))
    IN /\ stage = "lookup"
       /\ declared' = D /\ retained' = contents /\ source' = "archive"
       /\ IF req.node # Unset /\ req.node \notin Nodes
          THEN Finish("refused") /\ UNCHANGED <<queue, remaining, truncated>>
          ELSE /\ queue' = SubSeq(matching, 1, Least(Len(matching), MaxNodes))
               /\ truncated' = TooMany(matching)
               /\ remaining' = req.max
               /\ stage' = IF matching = << >> THEN "build" ELSE "read"
               /\ UNCHANGED answer
       /\ UNCHANGED <<req, live, gone, entries, shown>>

CutShort(p, left, rest) == p.more \/ (left = 0 /\ rest # << >>)

\* One node after the other is read while a character still fits.
ReadNode(sized) ==
    LET t       == retained[Head(queue)]
        data    == Data(t, 0, remaining)
        bounded == Bounded(t, 0, remaining, sized)
        p       == Page(data, 0, remaining, bounded)
        left    == remaining - Len(p.text)
    IN /\ stage = "read" /\ queue # << >> /\ remaining >= UTFMax
       /\ IF PageRefused(data, 0, remaining, bounded)
          THEN Finish("failed") /\ UNCHANGED <<queue, remaining, entries, truncated>>
          ELSE /\ entries' = entries \o EntriesOf(Head(queue), p.text)
               /\ remaining' = left
               /\ queue' = Tail(queue)
               /\ truncated' = (truncated \/ CutShort(p, left, Tail(queue)))
               /\ UNCHANGED <<stage, answer>>
       /\ UNCHANGED <<req, world, source, shown>>

StopReading ==
    /\ stage = "read" /\ (queue = << >> \/ remaining < UTFMax)
    /\ truncated' = (truncated \/ queue # << >>)
    /\ stage' = "build"
    /\ UNCHANGED <<req, world, queue, remaining, entries, source, answer, shown>>

Matching(es) ==
    IF req.search = Unset THEN es ELSE At(es, {i \in DOMAIN es : es[i].pod = req.search})
LastLines(es) ==
    IF req.lines > 0 /\ Len(es) > req.lines THEN SubSeq(es, Len(es) - req.lines + 1, Len(es)) ELSE es

Rendered(es) ==
    FlattenSeq([i \in DOMAIN es |-> (IF i = 1 THEN << >> ELSE <<Newline>>) \o Label \o es[i].line])

Capped(text) == SubSeq(text, 1, LastBoundary(text, Least(Len(text), req.max)))

\* The result: filtered, the last lines of it, rendered and capped.
Build ==
    LET es   == LastLines(Matching(entries))
        text == Rendered(es)
    IN /\ stage = "build"
       /\ shown' = [text |-> Capped(text), returned |-> Len(es)]
       /\ truncated' = (truncated \/ Capped(text) # text)
       /\ Finish("result")
       /\ UNCHANGED <<req, world, queue, remaining, entries, source>>

LogsNext ==
    \/ Receive
    \/ \E frames \in Streams : ReadLive(OfPod(frames))
    \/ LiveNotFound
    \/ RequestFails
    \/ \E D \in SUBSET Nodes : \E contents \in [D -> Retained] : FindNodes(D, contents)
    \/ \E sized \in BOOLEAN : ReadNode(sized)
    \/ StopReading
    \/ Build

LogsSpec == LogsInit /\ [][LogsNext]_logsVars
-------------------------------------------------------------------------------
\* The type of every variable; the budget is never overdrawn.
LogsTypeOK ==
    /\ req \in Requests
    /\ stage \in {"receive", "live", "lookup", "read", "build", "done"}
    /\ live \in Seq(Frame) /\ gone \in BOOLEAN
    /\ declared \subseteq Nodes /\ retained \in [declared -> Retained]
    /\ queue \in Seq(Nodes) /\ remaining \in 0..MaxBudget
    /\ entries \in Seq([pod : Nodes, line : Seq(Byte)])
    /\ truncated \in BOOLEAN /\ source \in {"live", "archive"}
    /\ answer \in {"none", "result", "refused", "failed"}
    /\ shown \in [text : Seq(Byte), returned : Nat]

\* Everything the answering source holds for the request, in order.
Everything ==
    IF source = "live" THEN Decoded(live)
    ELSE LET ns == Sorted(Wanted(declared))
         IN FlattenSeq([k \in DOMAIN ns |-> EntriesOf(ns[k], retained[ns[k]])])

\* A result not marked truncated is complete: whatever the budget, the widths
\* of characters, empty logs and the number of nodes, nothing was left out but
\* what the search and the line limit leave out ("Whether collection was
\* bounded before all available content", design.go).
CompleteUnlessTruncated ==
    answer = "result" /\ ~truncated =>
        /\ entries = Everything
        /\ shown.text = Rendered(LastLines(Matching(Everything)))

\* The variables keep their types.  What was collected is a prefix of everything
\* with no holes: only its last line may be cut, only in a result of the archive,
\* and only between characters.
CollectedPrefix ==
    /\ LogsTypeOK
    /\ answer = "result" =>
        /\ Len(entries) <= Len(Everything)
        /\ \A i \in 1..(Len(entries) - 1) : entries[i] = Everything[i]
        /\ entries # << >> =>
              LET e == Last(entries)
                  f == Everything[Len(entries)]
              IN IF source = "live" THEN e = f
                 ELSE e.pod = f.pod /\ IsPrefix(e.line, f.line) /\ IsText(e.line)

\* Retained logs answer a plain "auto" request only when the live log was
\* found empty to its end, or not found; never for a chosen pod, and never in
\* the place of a live log that did not fit the budget.
FallbackIsJustified ==
    answer = "result" /\ source = "archive" /\ ~FromArchive(req) =>
        /\ req.pod = Unset
        /\ gone \/ Decoded(live) = << >>

\* What the result says of itself, "Entries included in logs" (design.go:45):
\* returned_lines is the number of rendered lines in logs.
ReturnedLinesAreInLogs ==
    answer = "result" =>
        shown.returned = Len(Lines(shown.text))
===============================================================================

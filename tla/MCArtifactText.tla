----------------------------- MODULE MCArtifactText -----------------------------
(* The two tools that read retained text, called by one caller.                *)
EXTENDS ArtifactPages, WorkflowLogs

bothVars == <<vars, logsVars>>

\* The calls share nothing, so they are not multiplied with each other: the artifact is
\* empty beside a call for logs, and the logs are asked for in one way beside the
\* others.
OneRequest == CHOOSE r \in Requests : ~Invalid(r)

TextInit == Init /\ LogsInit /\ (content = << >> \/ req = OneRequest)

TextNext ==
    \/ req = OneRequest /\ Next /\ UNCHANGED logsVars
    \/ content = << >> /\ LogsNext /\ UNCHANGED vars

TextSpec == TextInit /\ [][TextNext]_bothVars
-------------------------------------------------------------------------------
(* The artifacts and the pages of it that are asked for. *)

\* Characters of every width, a NUL and a malformed byte.
MCChars == [kind : {"char"}, width : 1..3] \cup [kind : {"nul", "bad"}, width : {1}]

\* Every sequence of up to three characters, cut after any byte: the cut leaves
\* a text, or one whose last character is incomplete.
MCTexts == {Bytes(cs) : cs \in UNION {[1..n -> MCChars] : n \in 0..3}}
MCContents == MCTexts \cup {SubSeq(t, 1, Len(t) - 1) : t \in MCTexts \ {<< >>}}

MCOffsets == {-1, 1, 4, 8}
MCPageSizes == {2, 3, 4, 5}
-------------------------------------------------------------------------------
(* Live streams, nodes with their logs, and requests. *)

Of(kind, width) == [kind |-> kind, width |-> width]
Narrow == Of("char", 1)
Wide   == Of("char", 3)
Nl     == Of("newline", 1)

MCNodes == 1..3
MCLabel == Bytes(<<Narrow>>)

\* Empty, one line, two lines, a wide character at the end of a line, and one
\* that is no text.
MCRetained == {Bytes(t) : t \in {<< >>, <<Narrow, Nl, Narrow>>, <<Wide>>, <<Narrow, Wide, Nl>>,
                                 <<Narrow, Of("bad", 1)>>}}

MCFrame(kind, p, size) == [kind |-> kind, pod |-> p, line |-> Bytes(<<Narrow>>), size |-> size]
MCStreams == {<< >>, <<MCFrame("blank", 1, 1)>>,
              <<MCFrame("entry", 1, 3), MCFrame("entry", 2, 3), MCFrame("entry", 1, 3)>>,
              <<MCFrame("blank", 1, 1), MCFrame("entry", 2, 5)>>,
              <<MCFrame("entry", 1, 3), MCFrame("error", 2, 1)>>}

\* A frame is longer than its line as it is rendered: it is JSON.
ASSUME FramesAreJSON == \A s \in MCStreams : \A i \in DOMAIN s :
           s[i].kind = "entry" => s[i].size > Len(MCLabel) + Len(s[i].line)

MCRequests ==
    {r \in [source : {"auto", "live", "archive"}, pod : {Unset, 1}, node : {Unset, 1, 4},
            archived : BOOLEAN, max : {1, 3, 4, 6, 7}, lines : {-1, 0, 2}, search : {Unset, 1}] :
        r.max \in {1, 7} => r.lines = 0}
=================================================================================

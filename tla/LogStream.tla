----------------------------- MODULE LogStream -----------------------------
(***************************************************************************)
(* EdgeScopeServiceImpl::StreamLog: one call that follows a log file by      *)
(* polling it, against the program that writes, rotates and truncates it.    *)
(*                                                                         *)
(* The path is looked at twice in a round: stat decides whether there is     *)
(* anything to read and whether the file was replaced, and ifstream opens    *)
(* the path anew to read from the remembered offset.  The complete lines in  *)
(* partial_line are then sent one by one.                                   *)
(*                                                                         *)
(* A byte is <<line, index>>: it belongs to the line-th line the writer      *)
(* writes, and is its newline when the index is 0.  So every byte in the     *)
(* file's history is different, and a delivered line shows where it comes    *)
(* from.  Carriage returns and UTF-8 sanitization are left out.             *)
(*                                                                         *)
(* An operator X_Y beside X is X with the defect Y: it is not part of the    *)
(* specification, and shows that a property is sensitive to it.             *)
(***************************************************************************)
EXTENDS Integers, FiniteSets, Sequences

CONSTANTS ReadSize,      \* kStreamReadSize (64 KiB)
          LineCap,       \* longest line sent and longest partial line kept (4096)
          Keywords,      \* requests' keywords: the index of the byte a line must
                         \* contain, 0 for any line
          MaxLines, MaxLength,          \* bounds: the writer's lines and their bytes
          MaxRotations, MaxTruncations, \* bounds: times the file is replaced or cut
          UnnoticedSwaps \* FALSE: the file is not replaced between stat and open,
                         \* and one that was truncated is still shorter than the
                         \* offset at the next poll

ASSUME SizesAssumption ==
    /\ ReadSize \in Nat \ {0} /\ LineCap \in Nat \ {0} /\ Keywords \subseteq Nat
    /\ MaxLines \in Nat /\ MaxLength \in Nat
    /\ MaxRotations \in Nat /\ MaxTruncations \in Nat
    /\ UnnoticedSwaps \in BOOLEAN

VARIABLES
    file, inode, exists, readable, \* what the path names
    line, index,                   \* the line being written and its bytes so far
    rotations, truncations,
    keyword,                       \* the request's keyword
    pc,                            \* the call: "initial", "poll", "read", "lines" or
                                   \* "returned"
    status,                        \* the status it returned
    offset, ino, partial,          \* its locals offset, inode, partial_line
    start,                         \* the offset it began at
    delivered,                     \* the lines written to the client
    cancelled

vars == <<file, inode, exists, readable, line, index, rotations, truncations,
          keyword, pc, status, offset, ino, partial, start, delivered, cancelled>>
writerVars == <<file, inode, exists, readable, line, index, rotations, truncations>>
callVars   == <<keyword, pc, status, offset, ino, partial, start, delivered>>

Newline(byte) == byte[2] = 0
Bytes == (1..(MaxLines + 1)) \X (0..MaxLength)

\* find('\n').
HasLine(text)      == \E i \in 1..Len(text) : Newline(text[i])
FirstNewline(text) ==
    CHOOSE i \in 1..Len(text) : Newline(text[i]) /\ \A j \in 1..(i - 1) : ~Newline(text[j])

\* line.resize(4096), then the keyword filter.
Clipped(l) == SubSeq(l, 1, IF Len(l) > LineCap THEN LineCap ELSE Len(l))
Matches(l) == keyword = 0 \/ \E i \in 1..Len(l) : l[i][2] = keyword

\* partial_line.erase(0, size - 4096): the LAST bytes of a long unfinished line.
Kept_Whole(text) == text

Kept(text) ==
    IF Len(text) > LineCap THEN SubSeq(text, Len(text) - LineCap + 1, Len(text)) ELSE text

Init ==
    /\ file = <<>> /\ inode = 1 /\ exists \in BOOLEAN /\ readable \in BOOLEAN
    /\ line = 1 /\ index = 0 /\ rotations = 0 /\ truncations = 0
    /\ keyword \in Keywords /\ pc = "initial" /\ status = "none"
    /\ offset = 0 /\ ino = 0 /\ partial = <<>> /\ start = 0
    /\ delivered = <<>> /\ cancelled = FALSE

-----------------------------------------------------------------------------
(* The writer of the log: the Agent's own rotating spdlog sink, or syslog     *)
(* under logrotate.  A line may reach the file in several writes.            *)
SwapAllowed == UnnoticedSwaps \/ pc # "read"
GrowthAllowed == UnnoticedSwaps \/ inode # ino \/ Len(file) + 1 # offset

Write ==
    /\ exists /\ line <= MaxLines /\ GrowthAllowed
    /\ \/ /\ index < MaxLength
          /\ file' = Append(file, <<line, index + 1>>)
          /\ index' = index + 1 /\ UNCHANGED line
       \/ /\ file' = Append(file, <<line, 0>>)
          /\ line' = line + 1 /\ index' = 0
    /\ UNCHANGED <<inode, exists, readable, rotations, truncations, callVars, cancelled>>

\* An unfinished line ends with the file it was in.
NextLine == line' = (IF index > 0 THEN line + 1 ELSE line) /\ index' = 0

\* Rotation: the file is renamed away, then a new one is created.
RenameAway ==
    /\ exists /\ rotations < MaxRotations /\ SwapAllowed
    /\ exists' = FALSE /\ rotations' = rotations + 1
    /\ NextLine
    /\ UNCHANGED <<file, inode, readable, truncations, callVars, cancelled>>

Create ==
    /\ ~exists /\ SwapAllowed
    /\ exists' = TRUE /\ file' = <<>> /\ inode' = inode + 1
    /\ UNCHANGED <<readable, line, index, rotations, truncations, callVars, cancelled>>

\* copytruncate: the same file is cut to nothing.
Truncate ==
    /\ exists /\ truncations < MaxTruncations /\ SwapAllowed
    /\ file' = <<>> /\ truncations' = truncations + 1
    /\ NextLine
    /\ UNCHANGED <<inode, exists, readable, rotations, callVars, cancelled>>

-----------------------------------------------------------------------------
Return(s) == pc' = "returned" /\ status' = s

\* A keyword that is too long, a log id that is not on the whitelist.
Refuse ==
    /\ pc = "initial"
    /\ Return("INVALID_ARGUMENT")
    /\ UNCHANGED <<writerVars, keyword, offset, ino, partial, start, delivered, cancelled>>

FirstStat ==
    /\ pc = "initial"
    /\ \/ /\ ~exists
          /\ Return("NOT_FOUND")
          /\ UNCHANGED <<offset, ino, start>>
       \/ /\ exists
          /\ \E start_at_end \in BOOLEAN :
                offset' = IF start_at_end THEN Len(file)
                          ELSE IF Len(file) > ReadSize THEN Len(file) - ReadSize
                          ELSE 0
          /\ start' = offset' /\ ino' = inode
          /\ pc' = "poll" /\ UNCHANGED status
    /\ UNCHANGED <<writerVars, keyword, partial, delivered, cancelled>>

SeesCancel ==
    /\ pc = "poll" /\ cancelled
    /\ Return("OK")
    /\ UNCHANGED <<writerVars, keyword, offset, ino, partial, start, delivered, cancelled>>

(* stat: another inode, or a file shorter than what was read, is a new file. *)
Replaced_Never == FALSE

Replaced == inode # ino \/ Len(file) < offset

Poll_KeepingPartial ==
    /\ pc = "poll" /\ ~cancelled /\ exists
    /\ offset' = IF Replaced THEN 0 ELSE offset
    /\ ino' = inode
    /\ pc' = IF Len(file) > offset' THEN "read" ELSE "poll"
    /\ UNCHANGED <<writerVars, keyword, status, partial, start, delivered, cancelled>>

Poll ==
    /\ pc = "poll" /\ ~cancelled /\ exists
    /\ offset' = IF Replaced THEN 0 ELSE offset
    /\ partial' = IF Replaced THEN <<>> ELSE partial
    /\ ino' = inode
    /\ pc' = IF Len(file) > offset' THEN "read" ELSE "poll"
    /\ UNCHANGED <<writerVars, keyword, status, start, delivered, cancelled>>

\* The bytes the newly opened ifstream yields; none when the open fails.
Appended ==
    IF exists /\ readable
    THEN SubSeq(file, offset + 1,
                IF Len(file) > offset + ReadSize THEN offset + ReadSize ELSE Len(file))
    ELSE <<>>

Read_DroppingPartial ==
    /\ pc = "read"
    /\ offset' = offset + Len(Appended) /\ partial' = Appended
    /\ pc' = "lines"
    /\ UNCHANGED <<writerVars, keyword, status, ino, start, delivered, cancelled>>

Read ==
    /\ pc = "read"
    /\ offset' = offset + Len(Appended) /\ partial' = partial \o Appended
    /\ pc' = "lines"
    /\ UNCHANGED <<writerVars, keyword, status, ino, start, delivered, cancelled>>

\* The first complete line of partial_line is cut off and sent, unless the
\* keyword filters it; a Write that fails ends the call.
SendLine ==
    /\ pc = "lines" /\ HasLine(partial)
    /\ LET end == FirstNewline(partial)
           l   == Clipped(SubSeq(partial, 1, end - 1))
       IN /\ partial' = SubSeq(partial, end + 1, Len(partial))
          /\ \/ /\ delivered' = IF Matches(l) THEN Append(delivered, l) ELSE delivered
                /\ UNCHANGED <<pc, status>>
             \/ /\ Matches(l)
                /\ Return("OK") /\ UNCHANGED delivered
    /\ UNCHANGED <<writerVars, keyword, offset, ino, start, cancelled>>

EndOfLines ==
    /\ pc = "lines" /\ ~HasLine(partial)
    /\ partial' = Kept(partial)
    /\ pc' = "poll"
    /\ UNCHANGED <<writerVars, keyword, status, offset, ino, start, delivered, cancelled>>

Cancel ==
    /\ ~cancelled /\ pc # "returned"
    /\ cancelled' = TRUE
    /\ UNCHANGED <<writerVars, callVars>>

Writer == Write \/ RenameAway \/ Create \/ Truncate
Call   == Refuse \/ FirstStat \/ SeesCancel \/ Poll \/ Read \/ SendLine \/ EndOfLines
Next   == Writer \/ Call \/ Cancel

Spec == Init /\ [][Next]_vars

(* The handler's thread runs: it sleeps 250 ms between two rounds.           *)
FairSpec ==
    /\ Spec /\ WF_vars(FirstStat) /\ WF_vars(SeesCancel) /\ WF_vars(Poll)
    /\ WF_vars(Read) /\ WF_vars(SendLine) /\ WF_vars(EndOfLines)

-----------------------------------------------------------------------------
(* Every variable has its type; between two rounds the call keeps at most     *)
(* LineCap bytes of an unfinished line (line 405).                          *)
TypeOK ==
    /\ file \in Seq(Bytes) /\ inode \in Nat /\ exists \in BOOLEAN /\ readable \in BOOLEAN
    /\ line \in 1..(MaxLines + 1) /\ index \in 0..MaxLength
    /\ rotations \in 0..MaxRotations /\ truncations \in 0..MaxTruncations
    /\ keyword \in Keywords
    /\ pc \in {"initial", "poll", "read", "lines", "returned"}
    /\ status \in {"none", "OK", "NOT_FOUND", "INVALID_ARGUMENT"}
    /\ (status # "none") <=> (pc = "returned")
    /\ offset \in Nat /\ ino \in Nat /\ start \in Nat
    /\ partial \in Seq(Bytes) /\ (pc \in {"initial", "poll", "read"} => Len(partial) <= LineCap)
    /\ delivered \in Seq(Seq(Bytes))
    /\ \A k \in 1..Len(delivered) : Len(delivered[k]) <= LineCap
    /\ cancelled \in BOOLEAN

(* A delivered line is one piece of one line of the log: no chunk boundary,  *)
(* no over-long line and no rotation glues two lines, or two pieces of one,  *)
(* together (partial_line and its clear).  architecture.md:62 says log        *)
(* rotation is detected by inode and size changes.                          *)
NoSplicedLine ==
    \A k \in 1..Len(delivered) :
        \A i \in 2..Len(delivered[k]) :
            /\ delivered[k][i][1] = delivered[k][i - 1][1]
            /\ delivered[k][i][2] = delivered[k][i - 1][2] + 1

(* Every delivered line is genuine, and they come in the order they were      *)
(* written, none twice, across chunks and rotations.  An empty line does not  *)
(* say which line it was.                                                  *)
GenuineInOrder ==
    /\ NoSplicedLine
    /\ \A j, k \in 1..Len(delivered) :
          j < k /\ delivered[j] # <<>> /\ delivered[k] # <<>>
          => delivered[j][1][1] < delivered[k][1][1]

(* The reference: the lines of what was read so far, by where they end.      *)
Ends     == {i \in (start + 1)..offset : Newline(file[i])}
Begin(i) == CHOOSE b \in (start + 1)..i :
                /\ b = start + 1 \/ Newline(file[b - 1])
                /\ \A j \in b..(i - 1) : ~Newline(file[j])
LineTo(i) == SubSeq(file, Begin(i), i - 1)
Expected  == {i \in Ends : Matches(Clipped(LineTo(i)))}

(* As long as the file is only appended to, the lines delivered are exactly  *)
(* those the text read so far contains, however the reads cut it: none is    *)
(* lost, the n-th is that of the n-th line, and each has the length its line *)
(* should have.  What a keyword sees of a line longer than the cap does      *)
(* depend on the reads.                                                     *)
AppendedOnly == rotations + truncations = 0 /\ inode = 1 /\ pc \in {"poll", "read"}
FilterIsSure == keyword = 0 \/ \A i \in Ends : Len(LineTo(i)) <= LineCap

NothingMissed ==
    AppendedOnly /\ FilterIsSure =>
        /\ Len(delivered) = Cardinality(Expected)
        /\ \A i \in Expected :
              LET l == delivered[Cardinality({j \in Expected : j <= i})]
              IN /\ Len(l) = Len(Clipped(LineTo(i)))
                 /\ l # <<>> => l[1][1] = LineTo(i)[1][1]

(* A line that stands complete in the file, unread or in a file the call has   *)
(* yet to notice, is delivered, unless the file is replaced or the call ends *)
(* first: a rotation or truncation that the next stat notices only delays the *)
(* new content, which is then read from its beginning.  Of a change that stat  *)
(* does not notice (UnnoticedSwaps) nothing is claimed.                        *)
InFile(n, i) == file[i] = <<n, 0>> /\ i > 1 /\ file[i - 1][1] = n
Standing(n) == exists /\ \E i \in 1..Len(file) : InFile(n, i)

Outstanding(n) ==
    /\ pc \in {"poll", "read", "lines"} /\ exists /\ readable
    /\ \E i \in 1..Len(file) :
          /\ InFile(n, i)
          /\ inode = ino => i - 1 > offset \/ (i > offset /\ partial # <<>>)

Delivered(n) == \E k \in 1..Len(delivered) : delivered[k] # <<>> /\ delivered[k][1][1] = n

LinesArrive ==
    \A n \in 1..MaxLines :
        (keyword = 0 /\ Outstanding(n)) ~> (Delivered(n) \/ pc = "returned" \/ ~Standing(n))

=============================================================================

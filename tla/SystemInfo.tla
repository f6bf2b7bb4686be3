----------------------------- MODULE SystemInfo -----------------------------
(***************************************************************************)
(* The figures of the monitor: what libs/system_info reads from the files  *)
(* of /proc, which it finds by counting spaces and lines, and what the     *)
(* executor reports of two samples of it.                                  *)
(*                                                                         *)
(* A file is a sequence of words and separators.  A word is the name of    *)
(* the field it is the value of, so that a reader that counts wrong leaves *)
(* a field with another name in it.                                        *)
(***************************************************************************)
EXTENDS Integers, Sequences, SequencesExt

CONSTANTS
    Comm,       \* how many words the name of the program may have
    Cores,      \* how many cores the machine may have
    MaxTicks,   \* bound: the CPU time a process uses
    MaxUptime   \* bound: the ticks from its start to a message

VARIABLES
    machine,    \* the words of the program's name, and the cores
    clock,      \* the CPU time in each field of the process
    start_,     \* the first sample
    sampling,   \* is the timer of the executor waiting?
    message,    \* the figures that have just been sent
    used,       \* history: the CPU time used since the first sample,
    worked      \* and in all

vars == <<machine, clock, start_, sampling, message, used, worked>>

-----------------------------------------------------------------------------
\* The files, as proc(5) lays them out.
Space == "space"
NewLine == "newline"
Separators == {Space, NewLine}

Line(words) ==
    [i \in 1 .. 2 * Len(words) |->
        IF i % 2 = 1 THEN words[(i + 1) \div 2] ELSE IF i = 2 * Len(words) THEN NewLine ELSE Space]

Lines(lines) == FlattenSeq([i \in DOMAIN lines |-> Line(lines[i])])
Times(n, word) == [i \in 1 .. n |-> word]

CpuCounters == <<"utime", "stime", "cutime", "cstime">>

StatFile ==
    Line(<<"pid">> \o Times(machine.comm, "comm") \o <<"state", "ppid">> \o Times(9, "other")
            \o CpuCounters \o Times(4, "other") \o <<"starttime", "other">>)

StatmFields == <<"total", "rss", "shared", "text", "lib", "data", "dt">>
StatmFile == Line(StatmFields)

CpuFields == <<"user", "nice", "system", "idle", "iowait", "irq", "softirq", "steal", "guest", "guest_nice">>
CpuName == <<"cpu", "cpu0", "cpu1", "cpu2">>
Counts == <<"processes", "procs_running", "procs_blocked">>

HardwareStatFile ==
    Lines([i \in 1 .. machine.cores + 1 |-> <<CpuName[i]>> \o CpuFields]
            \o << <<"intr", "other", "other">>, <<"ctxt", "other">>, <<"btime", "other">> >>
            \o [i \in 1 .. 3 |-> <<"label", Counts[i]>>])

MemoryFields == <<"total", "free", "available", "buffers", "cached", "swap_cached">>
SwapFields == <<"swap_total", "swap_free">>
Labelled(fields) == [i \in DOMAIN fields |-> <<"label", fields[i], "kB">>]
MeminfoFile == Lines(Labelled(MemoryFields) \o Labelled(Times(8, "other")) \o Labelled(SwapFields))

\* The peaks of the process are among other lines.
StatusLines ==
    << <<"Name:", "comm">>, <<"VmPeak:", "vm_peak", "kB">>, <<"VmSize:", "other", "kB">>,
       <<"VmHWM:", "vm_hwm", "kB">>, <<"Threads:", "other">> >>

StatusFile == Lines(StatusLines)

-----------------------------------------------------------------------------
\* A stream is a place in a file and what has been read.
Start(file) == [file |-> file, at |-> 1, got |-> [f \in {} |-> ""]]

\* The first place from "at" that holds one of these, or the end of the file.
PlaceOf(s, wanted(_)) ==
    LET places == {i \in s.at .. Len(s.file) : wanted(s.file[i])}
    IN  IF places = {} THEN Len(s.file) + 1 ELSE CHOOSE i \in places : \A j \in places : i <= j

IsWord(item) == item \notin Separators
NextWord(s) == PlaceOf(s, IsWord)
Eof(s) == NextWord(s) > Len(s.file)
WordAt(s) == IF Eof(s) THEN "" ELSE s.file[NextWord(s)]

\* ignore() and operator>> of a stream.
Ignore(s, separator) == [s EXCEPT !.at = 1 + PlaceOf(s, LAMBDA item : item = separator)]
Skip(s) == [s EXCEPT !.at = 1 + NextWord(s)]
Read(s, field) ==
    [s EXCEPT !.at = 1 + NextWord(s), !.got = [f \in DOMAIN @ \union {field} |-> IF f = field THEN WordAt(s) ELSE @[f]]]

Reads(s, fields) == FoldLeft(Read, s, fields)
IgnoreN(s, n, separator) == FoldLeft(Ignore, s, Times(n, separator))

\* cpu_usage() and get_process_info(): 13 fields come before the times of a process.
BeforeMinorFaults == 12
BeforeTimes == 13
CpuUsageRead ==
    Reads(IgnoreN(Reads(IgnoreN(Start(StatFile), BeforeTimes, Space), CpuCounters), 5, Space),
          <<"starttime">>).got

ParentRead == Read(IgnoreN(Start(StatFile), 3, Space), "ppid").got

\* memory_usage(): the fifth word is read, and not kept.
MemoryUsageRead == Read(Skip(Reads(Start(StatmFile), SubSeq(StatmFields, 1, 4))), "data").got

\* hardware_memory_usage(): a line each, and eight that are not wanted.
LineRead(s, field) == Ignore(Read(Ignore(s, Space), field), NewLine)
HardwareMemoryRead ==
    FoldLeft(LineRead, IgnoreN(FoldLeft(LineRead, Start(MeminfoFile), MemoryFields), 8, NewLine),
             SwapFields).got

\* read_cpu_time(): as many cores as there are, and the word after them.
IsCore(word) == \E i \in DOMAIN CpuName : word = CpuName[i]

CoreRead(found, turn) ==
    LET s == found.stream
    IN  IF ~IsCore(WordAt(s)) THEN found
        ELSE [stream |-> Reads(Skip(s), CpuFields), cores |-> found.cores \union {WordAt(s)}]

CoresRead(s) ==
    LET found == FoldLeft(CoreRead, [stream |-> s, cores |-> {}], CpuName)
    IN  [found EXCEPT !.stream = Skip(@)]

CountRead(s, field) == Read(Ignore(s, Space), field)
HardwareCpuRead ==
    LET main == CoresRead(Start(HardwareStatFile))
    IN  [cores |-> main.cores,
         got |-> FoldLeft(CountRead, IgnoreN(main.stream, 3, NewLine), Counts).got]

\* memory_peak_usage(): lines until both are found.
PeakLineRead(s, turn) ==
    LET found == CASE WordAt(s) = "VmHWM:"  -> Read(Skip(s), "vm_hwm")
                   [] WordAt(s) = "VmPeak:" -> Read(Skip(s), "vm_peak")
                   [] OTHER                 -> Skip(s)
    IN  IF {"vm_hwm", "vm_peak"} \subseteq DOMAIN s.got THEN s ELSE Ignore(found, NewLine)

PeakRead(s) == FoldLeft(PeakLineRead, s, StatusLines).got

-----------------------------------------------------------------------------
\* The executor samples the process twice, and reports the difference.
Timed == {CpuCounters[i] : i \in DOMAIN CpuCounters}

\* process_info(): the value that each field was found to have.
ProcessInfo ==
    LET found == CpuUsageRead
    IN  [field \in Timed |-> IF found[field] \in Timed THEN clock[found[field]] ELSE 0]

NoInfo == [field \in Timed |-> 0]
NoMemory == <<"", "">>
NoMessage == [sent |-> FALSE, cpu |-> 0, used |-> 0, overall |-> 0, worked |-> 0,
              seconds |-> 0, percent |-> 0, memory |-> NoMemory]

\* cpu_usage() of one sample and of two, with the time of children that have ended.
Total(info) == info.utime + info.stime + info.cutime + info.cstime
CpuUsage(start, end) == Total(end) - Total(start)

\* The time a process is up, from uptime(): ticks are few here, and show the same roundings,
\* that of lround() and that of the division of starttime.
TicksPerSec == 2
Rounded(ticks) == (2 * ticks + TicksPerSec) \div (2 * TicksPerSec)
Seconds(up) == Rounded(up) - machine.started \div TicksPerSec

\* cpu_usage_percent() of a process: nothing is divided by no seconds.
CpuUsagePercent(info, up) ==
    IF Seconds(up) = 0 THEN 0
    ELSE (100 * Total(info)) \div (TicksPerSec * Seconds(up))

\* memory_usage_percent(): what is divided by what.
MemoryUsagePercent == <<MemoryUsageRead["rss"], HardwareMemoryRead["total"]>>

\* make_monitor_message().
MonitorMessage(start, end, up) ==
    [sent |-> TRUE, cpu |-> CpuUsage(start, end), used |-> used,
     overall |-> Total(end), worked |-> worked,
     seconds |-> Seconds(up), percent |-> CpuUsagePercent(end, up),
     memory |-> MemoryUsagePercent]

Init ==
    /\ machine \in [comm : Comm, cores : Cores, started : 0 .. TicksPerSec - 1]
    /\ clock = NoInfo
    /\ start_ = NoInfo
    /\ sampling = FALSE
    /\ message = NoMessage
    /\ used = 0 /\ worked = 0

\* The process, or a child that has ended, has used the CPU.
Works ==
    /\ \E field \in Timed :
           clock[field] < MaxTicks /\ clock' = [clock EXCEPT ![field] = @ + 1]
    /\ used' = used + 1 /\ worked' = worked + 1
    /\ message' = NoMessage
    /\ UNCHANGED <<machine, start_, sampling>>

\* calculate().
Calculates ==
    /\ ~sampling /\ sampling' = TRUE
    /\ start_' = ProcessInfo /\ used' = 0
    /\ message' = NoMessage
    /\ UNCHANGED <<machine, clock, worked>>

\* do_wait(), at a time since the process was started.
DoWait ==
    /\ sampling /\ sampling' = FALSE
    /\ \E up \in machine.started .. machine.started + MaxUptime :
           message' = MonitorMessage(start_, ProcessInfo, up)
    /\ UNCHANGED <<machine, clock, start_, used, worked>>

Next == Works \/ Calculates \/ DoWait
Spec == Init /\ [][Next]_vars

-----------------------------------------------------------------------------
\* Every reader finds the fields it is after, with any number of cores, and those of the
\* process if the name of its program is one word.  The CPU times that are reported are
\* what the process and its children have used between the samples, and ever; the time the
\* process is up, which is unsigned, does not wrap, and the percentage of memory is that of
\* the pages of the process in the memory of the machine.
Right(got) == \A field \in DOMAIN got : got[field] = field

FiguresAreRight ==
    /\ machine.comm = 1 =>
           /\ Right(CpuUsageRead) /\ Right(ParentRead)
           /\ message.cpu = message.used /\ message.overall = message.worked
    /\ message.seconds >= 0
    /\ message.memory \in {NoMemory, <<"rss", "total">>}
    /\ Right(MemoryUsageRead) /\ Right(HardwareMemoryRead) /\ Right(PeakRead(Start(StatusFile)))
    /\ Right(HardwareCpuRead.got)
    /\ HardwareCpuRead.cores = {CpuName[i] : i \in 1 .. machine.cores + 1}

=============================================================================

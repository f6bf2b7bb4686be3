------------------------------- MODULE Startup -------------------------------
(***************************************************************************)
(* How the daemon starts and stops: main() and check_arguments().  The     *)
(* options come from the command line and from a file; then the SSL        *)
(* context, the main listener and the apps are made, and the threads run   *)
(* the io_context until SIGINT or SIGTERM stops it.                        *)
(***************************************************************************)
EXTENDS Integers, Sequences

CONSTANTS
    CommandLine,   \* the command lines of users
    Bad,           \* a text that is no number, or no address
    None,          \* an option that is not given, a value that is missing
    UseSSL,        \* was the daemon compiled with SSL?
    Built          \* the apps it was compiled with, in their order

VARIABLES
    phase,       \* where main() is
    cmdl,        \* the command line
    args,        \* struct arguments
    file,        \* what is left of the file of options
    stream,      \* the state of the stream that reads it
    ec,          \* an error is pending in main()'s error code
    listening,   \* the endpoint of the main listener, or None
    table,       \* the apps that are registered
    threads,     \* the threads in run(), the main thread among them
    io,          \* the io_context: "idle", "running" or "stopped"
    signal       \* a SIGINT or SIGTERM that has not been handled

files == <<file, stream>>
loop  == <<threads, io, signal>>
vars  == <<phase, cmdl, args, files, ec, listening, table, loop>>

Default == [port |-> 0, addr |-> "0.0.0.0", threads |-> 1, key |-> None, cert |-> None]

Init ==
    /\ phase = "arguments"
    /\ cmdl \in CommandLine
    /\ args = Default
    /\ file = <<>> /\ stream = "closed"
    /\ ec = FALSE
    /\ listening = None
    /\ table = <<>>
    /\ threads = 0 /\ io = "idle" /\ signal = FALSE

GoesTo(place) == phase' = place
Exits(code)   == phase' = code

-----------------------------------------------------------------------------
\* check_arguments(): help, version and the like end the program at once.
Asks ==
    /\ phase = "arguments" /\ cmdl.asks
    /\ Exits("success")
    /\ UNCHANGED <<cmdl, args, files, ec, listening, table, loop>>

FileNotFound ==
    /\ phase = "arguments" /\ ~cmdl.asks /\ cmdl.file = Bad
    /\ Exits("failure")
    /\ UNCHANGED <<cmdl, args, files, ec, listening, table, loop>>

OpensFile ==
    /\ phase = "arguments" /\ ~cmdl.asks /\ cmdl.file # Bad
    /\ IF cmdl.file = None
       THEN GoesTo("check") /\ UNCHANGED files
       ELSE GoesTo("file") /\ file' = cmdl.file /\ stream' = "good"
    /\ UNCHANGED <<cmdl, args, ec, listening, table, loop>>

\* read_config_file(): a turn of its loop reads up to the next '='.  Lines without one
\* become part of the name that follows, which then is none that is known.
HasEquals(line) == line.key # "text"
NextSetting == {i \in DOMAIN file : HasEquals(file[i]) /\ \A j \in 1 .. i - 1 : ~HasEquals(file[j])}

Attribute(i) == IF i = 1 THEN file[i].key ELSE "unknown"

\* A value that is missing is looked for on the next line.
ValueAt(i) ==
    IF file[i].value # None THEN file[i].value
    ELSE IF i = Len(file) THEN None ELSE Bad

\* The rest of a line is ignored, or else read again.
Rest(i) == SubSeq(file, IF file[i].value = None THEN i + 2 ELSE i + 1, Len(file))
SameLine(i) == SubSeq(file, i, Len(file))
RestOfUnknown(i) == SubSeq(file, i + 1, Len(file))

Numbers == {"port", "threads"}
Attributes == Numbers \union {"addr"} \union (IF UseSSL THEN {"key", "cert"} ELSE {})

\* The file ends: the next getline() finds nothing.
EndOfFile ==
    /\ phase = "file" /\ stream = "good" /\ NextSetting = {}
    /\ GoesTo("check") /\ stream' = "closed" /\ file' = <<>>
    /\ UNCHANGED <<cmdl, args, ec, listening, table, loop>>

IgnoresSetting ==
    /\ phase = "file" /\ stream = "good"
    /\ \E i \in NextSetting :
           Attribute(i) \notin Attributes /\ file' = RestOfUnknown(i)
    /\ UNCHANGED <<phase, cmdl, args, stream, ec, listening, table, loop>>

\* A number that cannot be read is 0, and sets the failbit.
ReadsSetting ==
    /\ phase = "file" /\ stream = "good"
    /\ \E i \in NextSetting :
           LET attr == Attribute(i)
               fails == attr \in Numbers /\ ValueAt(i) = Bad
           IN  /\ attr \in Attributes
               /\ stream' = IF fails THEN "failed" ELSE "good"
               /\ args' = IF ValueAt(i) = None THEN args
                          ELSE [args EXCEPT ![attr] = IF fails THEN 0 ELSE ValueAt(i)]
               /\ file' = Rest(i)
    /\ UNCHANGED <<phase, cmdl, ec, listening, table, loop>>

\* Nothing reads from a stream that has failed, which never is at its end.
ReadsNothing ==
    /\ phase = "file" /\ stream = "failed"
    /\ UNCHANGED vars

\* Options given inline overwrite those of the file, and not the other way round.
Kept(option) ==
    IF cmdl[option] = None \/ args[option] # Default[option] THEN args[option] ELSE cmdl[option]
Given(option) == IF cmdl[option] = None THEN args[option] ELSE cmdl[option]

\* The tests in their order: the port, the number of threads, the key and certificate.
MaxPort == 65535
ValidListeningPort(port) == port > 1 /\ port <= MaxPort

Refused ==
    \/ Given("port") = Bad \/ ~ValidListeningPort(Given("port"))
    \/ Given("threads") = Bad \/ Given("threads") < 1
    \/ UseSSL /\ (Given("key") = None \/ Given("cert") = None)

ChecksArguments ==
    /\ phase = "check"
    /\ IF Refused
       THEN Exits("failure") /\ UNCHANGED args
       ELSE /\ args' = [option \in DOMAIN args |->
                           IF option \in {"key", "cert"} /\ ~UseSSL THEN None ELSE Given(option)]
            /\ IF cmdl.prints THEN Exits("success") ELSE GoesTo("address")
    /\ UNCHANGED <<cmdl, files, ec, listening, table, loop>>

-----------------------------------------------------------------------------
\* main(): the address is parsed here.
MakesAddress ==
    /\ phase = "address"
    /\ IF args.addr = Bad THEN Exits("failure") ELSE GoesTo("certificate")
    /\ UNCHANGED <<cmdl, args, files, ec, listening, table, loop>>

\* load_certificate(): a step that fails is the last.
LoadsCertificate ==
    /\ phase = "certificate"
    /\ IF UseSSL /\ Bad \in {args.key, args.cert} THEN Exits("failure") ELSE GoesTo("listener")
    /\ UNCHANGED <<cmdl, args, files, ec, listening, table, loop>>

\* init() of a listener: open, bind and listen, or an error.
Listens(endpoint) ==
    \/ listening' = endpoint /\ ec' = FALSE
    \/ listening' = None /\ ec' = TRUE

\* make_listener().
MakesListener ==
    /\ phase = "listener"
    /\ Listens(<<args.addr, args.port>>)
    /\ GoesTo("apps")
    /\ UNCHANGED <<cmdl, args, files, table, loop>>

\* init_apps() registers the apps, whether there is a listener or not.
RegistersApp ==
    /\ phase = "apps" /\ Len(table) < Len(Built)
    /\ table' = Append(table, Built[Len(table) + 1])
    /\ UNCHANGED <<phase, cmdl, args, files, ec, listening, loop>>

\* The error of make_listener() is looked at here; then the signals are awaited.
WaitsForSignals ==
    /\ phase = "apps" /\ Len(table) = Len(Built)
    /\ IF ec THEN Exits("failure") ELSE GoesTo("threads")
    /\ UNCHANGED <<cmdl, args, files, ec, listening, table, loop>>

\* threads - 1 are started, and then the main thread runs, and joins them.
MoreThreads == threads < args.threads
StartsThread ==
    /\ phase = "threads" /\ MoreThreads
    /\ threads' = threads + 1
    /\ io' = IF io = "idle" THEN "running" ELSE io
    /\ phase' = IF threads' = args.threads THEN "joining" ELSE phase
    /\ UNCHANGED <<cmdl, args, files, ec, listening, table, signal>>

\* Before the signals are awaited one of them ends the process.
Signal ==
    /\ phase \notin {"success", "failure", "killed"} /\ ~signal
    /\ IF phase \in {"threads", "joining"}
       THEN signal' = TRUE /\ UNCHANGED phase
       ELSE signal' = FALSE /\ Exits("killed")
    /\ UNCHANGED <<cmdl, args, files, ec, listening, table, threads, io>>

\* The handler of the signal_set, in one of the threads, and one that does not stop them.
Continues == "running"
Stops == "stopped"
SignalHandler ==
    /\ signal /\ io = "running"
    /\ io' = Stops
    /\ UNCHANGED <<phase, cmdl, args, files, ec, listening, table, threads, signal>>

\* run() returns in a thread; when all are joined, main() returns.
ThreadReturns ==
    /\ phase = "joining" /\ io = "stopped" /\ threads > 0
    /\ threads' = threads - 1
    /\ UNCHANGED <<phase, cmdl, args, files, ec, listening, table, io, signal>>

Returns ==
    /\ phase = "joining" /\ threads = 0
    /\ Exits("success")
    /\ UNCHANGED <<cmdl, args, files, ec, listening, table, loop>>

\* An accept that fails ends the accept loop; the daemon goes on without it.
AcceptFails ==
    /\ io = "running" /\ listening # None
    /\ listening' = None
    /\ UNCHANGED <<phase, cmdl, args, files, ec, table, loop>>

Proceeds ==
    \/ Asks \/ FileNotFound \/ OpensFile
    \/ EndOfFile \/ IgnoresSetting \/ ReadsSetting \/ ReadsNothing
    \/ ChecksArguments \/ MakesAddress \/ LoadsCertificate
    \/ MakesListener \/ RegistersApp \/ WaitsForSignals
    \/ StartsThread \/ SignalHandler \/ ThreadReturns \/ Returns

Next == Proceeds \/ Signal \/ AcceptFails

\* The program goes on; no signal has to come.
Fairness == WF_vars(Proceeds)
Spec == Init /\ [][Next]_vars /\ Fairness

-----------------------------------------------------------------------------
\* What has been started is what was asked for: threads only run with a port, an
\* address, a number of threads and a key that have been checked, an option of the command
\* line beats the one of the file, every app is registered, and there is no more than one
\* thread for each of --threads.
RunningIsConfigured ==
    phase \in {"threads", "joining"} =>
        /\ args.port \in 2 .. MaxPort /\ args.threads >= 1 /\ args.addr # Bad
        /\ UseSSL => {args.key, args.cert} \cap {None, Bad} = {}
        /\ \A option \in {"port", "threads", "addr"} :
               cmdl[option] # None => args[option] = cmdl[option]
        /\ table = Built /\ threads <= args.threads
        /\ io = "idle" => listening = <<args.addr, args.port>>

\* The loop over the file and the checks come to an end, whatever the file holds, but for
\* a number that cannot be read: it spins then (see README, "Disagreements").
StartupEnds ==
    phase = "arguments" ~> stream = "failed" \/ phase \in {"joining", "success", "failure", "killed"}

\* A signal ends every thread and the program.
SignalStops == signal ~> phase = "success"

=============================================================================

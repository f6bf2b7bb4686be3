-------------------------------- MODULE Serial --------------------------------
(***************************************************************************)
(* The serial app: its messages, the container of ports, and Serial_Base.  *)
(* A port that is open is watched by its read: when the device is removed, *)
(* the read ends with eof and close_callback() takes the port off.         *)
(*                                                                         *)
(* One worker runs the io_context, every handler is one step.  The write   *)
(* side is that of WriteQueue, reduced to idle, posted, busy, and stuck on *)
(* data that failed.  Options and the contents of reads are left out.      *)
(***************************************************************************)
EXTENDS Functions

CONSTANTS
    Handle,    \* the Serial objects users may create, each used once
    Name,      \* the names of devices
    NoName,    \* the empty name
    Fault      \* what may go wrong, a subset of AllFaults

AllFaults == {"removed", "bad_baud", "read_error", "write_error"}

VARIABLES
    serials,     \* the container: name |-> object
    stream_,     \* none, open or closed
    device,      \* the device an object has opened
    port_name_,  \* the name an object gives itself
    reads,       \* the async_read_some: idle, waiting, its handler is ready, or failed
    writes,      \* the write side
    present,     \* the devices that are plugged in
    opened,      \* the ports the last status has shown as open
    leaked       \* history: objects whose open() failed at the baud rate

objects == <<stream_, device, port_name_, reads, writes>>
vars    == <<serials, objects, present, opened, leaked>>

Listed == DOMAIN serials
Gone(h) == stream_[h] = "open" /\ device[h] \notin present

\* A read failed on an open port with an error that fail() only prints.
Deaf(n) == n \in Listed /\ reads[serials[n]] = "failed"

\* serial_send_status(), after the step: the devices found by scan_ports(), and
\* whether each is open.
SendStatus ==
    opened' = {n \in present' : n \in DOMAIN serials' /\ stream_'[serials'[n]] = "open"}

-----------------------------------------------------------------------------
(***************************************************************************)
(* The messages of the users.  All but data end with a status, also those  *)
(* that are refused or fail (a port that is open already, or is not open,  *)
(* or a device that is not there), which MessageStatus stands for.         *)
(***************************************************************************)
MessageStatus ==
    /\ UNCHANGED <<serials, objects, present, leaked>>
    /\ SendStatus

\* open: the stream, the baud rate, the first read, the container, the options.
MessageOpen(n, h) ==
    /\ stream_[h] = "none" /\ n \notin Listed /\ n \in present
    /\ stream_' = [stream_ EXCEPT ![h] = "open"]
    /\ device' = [device EXCEPT ![h] = n]
    /\ port_name_' = [port_name_ EXCEPT ![h] = n]
    /\ reads' = [reads EXCEPT ![h] = "waiting"]
    /\ serials' = [m \in Listed \union {n} |-> IF m = n THEN h ELSE serials[m]]
    /\ UNCHANGED <<writes, present, leaked>>
    /\ SendStatus

\* The device refuses the baud rate: the object is not listed, but close_callback
\* refers to it, so that it stays, and its stream stays open.
MessageOpenBadBaud(n, h) ==
    /\ "bad_baud" \in Fault
    /\ stream_[h] = "none" /\ n \notin Listed /\ n \in present
    /\ stream_' = [stream_ EXCEPT ![h] = "open"]
    /\ device' = [device EXCEPT ![h] = n]
    /\ port_name_' = [port_name_ EXCEPT ![h] = n]
    /\ leaked' = leaked \union {h}
    /\ UNCHANGED <<serials, reads, writes, present>>
    /\ SendStatus

\* What close() does to the read and the name, and the container to the entry; before
\* the last two, a bug that a property rules out.
Cancelled(rd) == IF rd = "waiting" THEN "aborted" ELSE rd

NameKept(h) == port_name_[h]
NameCleared(h) == NoName

NotErased(n) == serials
Erased(n) == Restrict(serials, Listed \ {n})

\* close() of the container: nothing happens if the name is not in it.
Close(n, ended) ==
    IF n \notin Listed
    THEN /\ UNCHANGED <<serials, stream_, port_name_>>
         /\ reads' = ended
    ELSE LET g == serials[n]
         IN  /\ serials' = Erased(n)
             /\ stream_' = [stream_ EXCEPT ![g] = "closed"]
             /\ port_name_' = [port_name_ EXCEPT ![g] = NameCleared(g)]
             /\ reads' = [ended EXCEPT ![g] = Cancelled(@)]

MessageClose(n) ==
    /\ n \in Listed
    /\ Close(n, reads)
    /\ UNCHANGED <<device, writes, present, leaked>>
    /\ SendStatus

MessageData(n) ==
    /\ n \in Listed
    /\ writes' = [writes EXCEPT ![serials[n]] = IF @ = "idle" THEN "posted" ELSE @]
    /\ UNCHANGED <<serials, stream_, device, port_name_, reads, present, opened, leaked>>

-----------------------------------------------------------------------------
Others == <<serials, stream_, device, port_name_, present, opened, leaked>>

\* on_read() with data: to all users, and the next read, which fails if the port was
\* closed meanwhile.
OnReadData(h) ==
    /\ reads[h] = "data"
    /\ reads' = [reads EXCEPT ![h] = IF stream_[h] = "open" THEN "waiting" ELSE "aborted"]
    /\ UNCHANGED <<Others, writes>>

\* fail() looks at the value of the error only: that of eof is the value of
\* no_such_file_or_directory.  A fail() that tells them apart is a bug ruled out.
NotEof == {"no_such_file_or_directory"}
ClosesOn == {"no_such_file_or_directory", "eof"}

\* A close_callback() that sends no status is a bug that is ruled out.
ClosedSilently == UNCHANGED opened
ClosedStatus == SendStatus

\* on_read() with eof: fail(), close_callback() with the object's own name, a status.
OnReadEof(h) ==
    /\ reads[h] = "eof"
    /\ UNCHANGED <<device, writes, present, leaked>>
    /\ IF "eof" \in ClosesOn
       THEN /\ Close(port_name_[h], [reads EXCEPT ![h] = "idle"])
            /\ ClosedStatus
       ELSE /\ reads' = [reads EXCEPT ![h] = "idle"]
            /\ UNCHANGED <<serials, stream_, port_name_, opened>>

\* fail() on any other error prints: the port stays open, and nothing reads from it.
OnReadError(h) ==
    /\ "read_error" \in Fault
    /\ reads[h] = "waiting" /\ stream_[h] = "open" /\ ~Gone(h)
    /\ reads' = [reads EXCEPT ![h] = "failed"]
    /\ UNCHANGED <<Others, writes>>

OnReadAborted(h) ==
    /\ reads[h] = "aborted"
    /\ reads' = [reads EXCEPT ![h] = "idle"]
    /\ UNCHANGED <<Others, writes>>

\* on_writing(): a write starts.
Writing(h) ==
    /\ writes[h] = "posted"
    /\ writes' = [writes EXCEPT ![h] = "busy"]
    /\ UNCHANGED <<Others, reads>>

\* on_write() without error, whether all of the data was written or part of it.
OnWriteOk(h) ==
    /\ writes[h] = "busy" /\ stream_[h] = "open" /\ ~Gone(h)
    /\ writes' = [writes EXCEPT ![h] = "idle"]
    /\ UNCHANGED <<Others, reads>>

\* on_write() with an error, which is printed: a fault, or the device is gone or closed.
OnWriteError(h) ==
    /\ writes[h] = "busy"
    /\ "write_error" \in Fault \/ Gone(h) \/ stream_[h] = "closed"
    /\ writes' = [writes EXCEPT ![h] = "stuck"]
    /\ UNCHANGED <<Others, reads>>

-----------------------------------------------------------------------------
(***************************************************************************)
(* The devices.  A read of one that is removed ends with eof; its name is  *)
(* given again when no stream is open on it.                               *)
(***************************************************************************)
DataArrives(h) ==
    /\ reads[h] = "waiting" /\ stream_[h] = "open" /\ ~Gone(h)
    /\ reads' = [reads EXCEPT ![h] = "data"]
    /\ UNCHANGED <<Others, writes>>

ReadEnds(h) ==
    /\ reads[h] = "waiting" /\ Gone(h)
    /\ reads' = [reads EXCEPT ![h] = "eof"]
    /\ UNCHANGED <<Others, writes>>

Remove(n) ==
    /\ "removed" \in Fault /\ n \in present
    /\ present' = present \ {n}
    /\ UNCHANGED <<serials, objects, opened, leaked>>

Plug(n) ==
    /\ n \notin present /\ \A h \in Handle : stream_[h] = "open" => device[h] # n
    /\ present' = present \union {n}
    /\ UNCHANGED <<serials, objects, opened, leaked>>

-----------------------------------------------------------------------------
Init ==
    /\ serials = [n \in {} |-> n]
    /\ stream_ = [h \in Handle |-> "none"]
    /\ device = [h \in Handle |-> NoName]
    /\ port_name_ = [h \in Handle |-> NoName]
    /\ reads = [h \in Handle |-> "idle"]
    /\ writes = [h \in Handle |-> "idle"]
    /\ present = Name
    /\ opened = {}
    /\ leaked = {}

Handler(h) ==
    \/ OnReadData(h)
    \/ OnReadEof(h)
    \/ OnReadAborted(h)
    \/ Writing(h)
    \/ ReadEnds(h)

Next ==
    \/ MessageStatus
    \/ \E n \in Name :
        \/ MessageClose(n)
        \/ MessageData(n)
        \/ Remove(n)
        \/ Plug(n)
        \/ \E h \in Handle : MessageOpen(n, h) \/ MessageOpenBadBaud(n, h)
    \/ \E h \in Handle :
        \/ Handler(h)
        \/ OnReadError(h)
        \/ OnWriteOk(h)
        \/ OnWriteError(h)
        \/ DataArrives(h)

Spec == Init /\ [][Next]_vars

\* asio runs every handler that is ready, and the system ends the reads of a device
\* that is gone: users who keep writing do not keep these waiting.
Fairness ==
    \A h \in Handle : /\ WF_vars(OnReadData(h))
                      /\ WF_vars(OnReadEof(h) \/ OnReadAborted(h))
                      /\ WF_vars(ReadEnds(h))

-----------------------------------------------------------------------------
\* Every variable holds a value of its kind.
TypeOK ==
    /\ Listed \subseteq Name /\ Range(serials) \subseteq Handle
    /\ stream_ \in [Handle -> {"none", "open", "closed"}]
    /\ device \in [Handle -> Name \union {NoName}]
    /\ port_name_ \in [Handle -> Name \union {NoName}]
    /\ reads \in [Handle -> {"idle", "waiting", "data", "eof", "aborted", "failed"}]
    /\ writes \in [Handle -> {"idle", "posted", "busy", "stuck"}]
    /\ present \subseteq Name
    /\ opened \subseteq Name
    /\ leaked \subseteq Handle

(***************************************************************************)
(* The container holds the ports that are open, each under the name it     *)
(* gives itself, and all of them but those whose open() has failed: what   *)
(* close_callback() takes off by name is the port that has ended.          *)
(***************************************************************************)
PortsAreListed ==
    /\ \A n \in Listed :
        LET h == serials[n]
        IN  stream_[h] = "open" /\ port_name_[h] = n /\ device[h] = n
    /\ \A h \in Handle :
        stream_[h] = "open" /\ h \notin leaked =>
            device[h] \in Listed /\ serials[device[h]] = h

(***************************************************************************)
(* An open port is closed by a user or because its own read has ended, and *)
(* never by the late end of a port that had the same name before.          *)
(***************************************************************************)
ClosedByItsOwnEnd ==
    [][\A h \in Handle : stream_[h] = "open" /\ stream_'[h] = "closed" =>
          reads[h] = "eof" \/ MessageClose(device[h])]_vars

(***************************************************************************)
(* The last status shows no port as open that has been closed since, and   *)
(* every open port whose device is there.                                  *)
(***************************************************************************)
OpenedIsShown == \A n \in Name : /\ n \in opened => n \in Listed
                                 /\ n \in Listed /\ n \in present => n \in opened

(***************************************************************************)
(* Open ports are watched (README.md, "The application doesn't scan the    *)
(* ports continuously (except opened ports)"): one whose device is removed *)
(* leaves the container, unless a failed read has left it unwatched.       *)
(***************************************************************************)
RemovedIsUnlisted == \A n \in Name : n \notin present ~> n \notin Listed \/ Deaf(n)

=============================================================================

---------------------------------- MODULE Meta ----------------------------------
(***************************************************************************)
(* The factory interface: handle_trustkernel_meta_command of               *)
(* meta/src/TrustkernelExternal.cpp, which a tool on a PC drives through   *)
(* one command at a time.                                                  *)
(*                                                                         *)
(* A command comes in a buffer *pbuf of *psize bytes, and the answer goes  *)
(* back in it.  The output of a program that was run does not fit there:   *)
(* it stays on the heap, entered in cmd_resps under its address, and the   *)
(* answer's header names that address and its size; the tool fetches it    *)
(* with KPHA_READ_CMD_RESPONSE.  Sizes are in bytes.                       *)
(***************************************************************************)
EXTENDS Integers, FiniteSets

CONSTANTS
    Addrs,        \* what malloc can return
    NoAddr,
    Sizes,        \* the sizes of the tool's buffers
    OutSizes,     \* the sizes of a program's output
    Files,        \* names of files; "device.finish" is a special one
    FileSizes,    \* what a file can hold
    MaxRuns       \* bound: programs that are run

HeaderSize == 16   \* sizeof(meta_buf_header_t)
ReadParamSize == 12 \* sizeof(readcmdresp_param_t)
IntSize == 4
SerialLens == {5, 16}
RidLen == 4

KphCmds == {"IMPORT_CFG_FILE", "IMPORT_TA_DATA", "IMPORT_TA_KEY", "GEN_KEY", "EXPORT_KEY",
            "EXPORT_DEV_INF"}
Cmds == KphCmds \cup
        {"GET_VERSION", "GET_PL_STATUS", "GET_TRUSTSTORE", "PROGRAM_CERT", "GET_SN_CHIPID",
         "WAIT_FOR_DEVICE", "REVOKE_CERT", "SHUTDOWN_DEV", "GENERIC_EXECUTE_CMD", "UNKNOWN"}

VARIABLES
    heap,         \* the size of the block at each address, 0 when it is free
    cmd_resps,    \* the entries: address, size, and which run they are of
    pbuf, psize,
    files,        \* what is in OUTPUT_PATH
    runs,         \* the programs run so far
    tool,         \* the tool's command, and the answer it gets
    unread,       \* the outputs the tool was told of and has not fetched
    lost          \* history: the outputs that were read, but for nobody

vars == <<heap, cmd_resps, pbuf, psize, files, runs, tool, unread, lost>>

NoTool == [at |-> "idle", cmd |-> "none", file |-> "none", ptr |-> NoAddr, size |-> 0,
           id |-> 0, r |-> "none", did |-> FALSE, got |-> 0]

Init ==
    /\ heap = [a \in Addrs |-> 0]
    /\ cmd_resps = {}
    /\ pbuf = NoAddr /\ psize = 0
    /\ files = [f \in Files |-> "none"]
    /\ runs = 0
    /\ tool = NoTool
    /\ unread = {} /\ lost = {}

Free == {a \in Addrs : heap[a] = 0}
Sent(c) == tool.at = "sent" /\ tool.cmd = c
\* The tool sends a command in a buffer that the META library allocates.
Sends(c, t) ==
    /\ tool.at = "idle"
    /\ \E a \in Free, s \in Sizes :
          /\ heap' = [heap EXCEPT ![a] = s]
          /\ pbuf' = a /\ psize' = s
    /\ tool' = [t EXCEPT !.at = "sent", !.cmd = c]
    /\ UNCHANGED <<cmd_resps, files, runs, unread, lost>>

SendCommand ==
    \/ \E c \in Cmds : Sends(c, NoTool)
    \/ \E c \in {"RECV_FILE", "SEND_FILE"}, f \in Files : Sends(c, [NoTool EXCEPT !.file = f])
    \/ \E u \in unread, s \in OutSizes :
          /\ s <= u.size
          /\ Sends("READ_CMD_RESPONSE", [NoTool EXCEPT !.ptr = u.ptr, !.size = s, !.id = u.id])

-----------------------------------------------------------------------------
(* The buffer *)

\* Mutant: a small buffer is used as it is.
Capacity_AsIs == psize
\* CALL_META_FUNC_ARGS makes room for the header of the answer.
Capacity == IF psize < HeaderSize THEN HeaderSize ELSE psize
\* The buffer after that: the old one, or a new one that replaces it.
Buffers == IF psize < Capacity
           THEN {[addr |-> g, heap |-> [heap EXCEPT ![g] = Capacity, ![pbuf] = 0]] : g \in Free}
           ELSE {[addr |-> pbuf, heap |-> heap]}

\* malloc fails, and the function returns -1, or 1 when it does not know the
\* command: the tool gets no answer.
NoAnswer ==
    /\ tool.at = "sent" /\ (psize < Capacity \/ tool.cmd = "UNKNOWN")
    /\ tool' = [tool EXCEPT !.at = "answer", !.r = "none"]
    /\ UNCHANGED <<heap, cmd_resps, pbuf, psize, files, runs, unread, lost>>

\* KPHA_META_RESULT_SUCCESS, with what the handler made of the size
Succeed(b, size, did) ==
    /\ pbuf' = b.addr /\ psize' = size
    /\ tool' = [tool EXCEPT !.at = "answer", !.r = "success", !.did = did]
\* KPHA_META_RESULT_FAILED: the header, with the error in it
Fail(b) ==
    /\ pbuf' = b.addr /\ psize' = HeaderSize
    /\ tool' = [tool EXCEPT !.at = "answer", !.r = "failed"]

-----------------------------------------------------------------------------
(* The handlers *)

\* __runcmd stores the output, when there is memory for it, and puts its
\* address and size into the header.
Store(b, out) ==
    \/ \E a \in {x \in Addrs : b.heap[x] = 0} :
          /\ heap' = [b.heap EXCEPT ![a] = out]
          /\ cmd_resps' = cmd_resps \cup {[ptr |-> a, size |-> out, id |-> runs']}
          /\ unread' = unread \cup {[ptr |-> a, size |-> out, id |-> runs']}
    \/ heap' = b.heap /\ UNCHANGED <<cmd_resps, unread>>

\* How a program ends; WEXITSTATUS makes 0 of a killed one.
Ends == {"ok", "error", "signal"}
ExitStatus(e) == IF e = "error" THEN 1 ELSE 0

\* runcmd: the command failed if the program's status is not zero.
Ran(b, did, e) == IF ExitStatus(e) = 0 THEN Succeed(b, Capacity, did) ELSE Fail(b)

\* A command that runs kph with fields that are parsed first: each begins with
\* its length, an int, and must end inside the buffer, or the command fails
\* like one without memory.  What kph wrote is kept only when it failed.
RunKph(c, fields, needsFile) ==
    /\ Sent(c)
    /\ \E b \in Buffers :
          \/ /\ heap' = b.heap /\ Fail(b)
             /\ UNCHANGED <<cmd_resps, runs, unread>>
          \/ \E e \in Ends, out \in OutSizes :
                /\ Capacity >= fields * IntSize
                /\ runs < MaxRuns /\ runs' = runs + 1
                /\ e = "ok" /\ needsFile => \E f \in Files : files[f] # "none"
                /\ IF e = "ok" THEN heap' = b.heap /\ UNCHANGED <<cmd_resps, unread>>
                   ELSE Store(b, out)
                /\ Ran(b, e = "ok", e)
    /\ UNCHANGED <<files, lost>>

kph_import_config == RunKph("IMPORT_CFG_FILE", 1, TRUE)
kph_import_ta_data == RunKph("IMPORT_TA_DATA", 2, TRUE)
kph_import_ta_key == RunKph("IMPORT_TA_KEY", 2, TRUE)
kph_gen_key == RunKph("GEN_KEY", 1, FALSE)
kph_export_key == RunKph("EXPORT_KEY", 1, FALSE)
kph_export_device_inf == RunKph("EXPORT_DEV_INF", 0, FALSE)

\* generic_execute: a kph or pld command, or getprop; the output is kept
\* whatever the status, which goes into the header.
HandleGeneric ==
    /\ Sent("GENERIC_EXECUTE_CMD")
    /\ \E b \in Buffers :
          \/ heap' = b.heap /\ Fail(b) /\ UNCHANGED <<cmd_resps, runs, unread>>
          \/ \E out \in OutSizes :
                /\ runs < MaxRuns /\ runs' = runs + 1
                /\ Store(b, out) /\ Succeed(b, HeaderSize, TRUE)
    /\ UNCHANGED <<files, lost>>

\* A command that answers in the buffer, with one of these sizes: a buffer
\* below the size it needs is refused, and the device can fail.
Query(c, need, sizes) ==
    /\ Sent(c)
    /\ \E b \in Buffers :
          /\ heap' = b.heap
          /\ \/ Fail(b)
             \/ Capacity >= need /\ \E n \in sizes : Succeed(b, n, TRUE)
    /\ UNCHANGED <<cmd_resps, files, runs, unread, lost>>

get_version == Query("GET_VERSION", 3, {3})
\* With the digest of the certificate, or without when there is none.
get_device_pl_status == Query("GET_PL_STATUS", 6 * IntSize + 32, {6 * IntSize, 6 * IntSize + 32})
get_device_truststore == Query("GET_TRUSTSTORE", 3 * IntSize, {3 * IntSize})
\* Two sizes, a certificate and a hash; the type of the certificate comes back.
program_cert == Query("PROGRAM_CERT", 2 * IntSize, {IntSize})

\* The lengths the serial number can have, and the chip's identity in
\* hexadecimal, when the buffer has room for them.
get_serialno == {n \in SerialLens : n < Capacity}
get_rid == {n \in {2 * RidLen} : n + 1 <= Capacity}
\* Both follow one another, each behind its length.
get_sn_chipid ==
    LET answers == {n + m + 2 * IntSize : n \in get_serialno, m \in get_rid}
    IN  Query("GET_SN_CHIPID", 0, {n \in answers : n <= Capacity})

\* wait_for_device does nothing, and shutdown_device leaves it to the system.
Always(c) ==
    /\ Sent(c)
    /\ \E b \in Buffers : heap' = b.heap /\ Succeed(b, Capacity, TRUE)
    /\ UNCHANGED <<cmd_resps, files, runs, unread, lost>>
wait_for_device == Always("WAIT_FOR_DEVICE")
shutdown_device == Always("SHUTDOWN_DEV")
revoke_cert == Query("REVOKE_CERT", 0, {Capacity})

\* read_file_from_pc: write_file truncates first and can write too little.
HandleRecvFile ==
    /\ Sent("RECV_FILE")
    /\ \E b \in Buffers :
          /\ heap' = b.heap
          /\ \/ files' = [files EXCEPT ![tool.file] = "whole"] /\ Succeed(b, Capacity, TRUE)
             \/ files' = [files EXCEPT ![tool.file] = "part"] /\ Fail(b)
             \/ UNCHANGED files /\ Fail(b)
    /\ UNCHANGED <<cmd_resps, runs, unread, lost>>

\* The sizes read_file reports: what there is, up to the buffer's size, and -1
\* for device.finish, of which an error of read is none.
read_file(f) ==
    {IF n < Capacity THEN n ELSE Capacity : n \in FileSizes}
        \cup (IF f = "device.finish" THEN {-1} ELSE {})
\* write_file_to_pc: that is the answer's size.
HandleSendFile ==
    /\ Sent("SEND_FILE")
    /\ \E b \in Buffers :
          /\ heap' = b.heap
          /\ \/ Fail(b)
             \/ /\ files[tool.file] # "none"
                /\ \E n \in read_file(tool.file) : Succeed(b, n, TRUE)
    /\ UNCHANGED <<cmd_resps, files, runs, unread, lost>>

Entry == {x \in cmd_resps : x.ptr = tool.ptr}

\* Mutant: the entry is erased before its size is compared.
Refused_Erases ==
    /\ psize >= ReadParamSize
    /\ \A x \in Entry : x.size > tool.size
    /\ cmd_resps' = cmd_resps \ Entry
\* __readcmdresp refuses an address it does not know and a size that is too
\* small; the entry stays.
Refused ==
    /\ psize < ReadParamSize \/ \A x \in Entry : x.size > tool.size
    /\ UNCHANGED cmd_resps

Erased(x) == cmd_resps \ {x}
\* readcmdresp: the output is copied into a block that replaces the buffer.
HandleRead ==
    /\ Sent("READ_CMD_RESPONSE")
    /\ \E b \in Buffers :
          \/ heap' = b.heap /\ Refused /\ Fail(b)
          \/ heap' = b.heap /\ Fail(b) /\ UNCHANGED cmd_resps   \* no memory
          \/ /\ psize >= ReadParamSize
             /\ \E x \in Entry, p \in {a \in Addrs : b.heap[a] = 0} :
                   /\ x.size <= tool.size
                   /\ cmd_resps' = Erased(x)
                   /\ heap' = [b.heap EXCEPT ![p] = tool.size, ![x.ptr] = 0, ![b.addr] = 0]
                   /\ pbuf' = p /\ psize' = x.size
                   /\ tool' = [tool EXCEPT !.at = "answer", !.r = "success", !.did = TRUE,
                                           !.got = x.id]
    /\ UNCHANGED <<files, runs, unread, lost>>

\* The tool has the answer, unless it is lost on the way, and the library frees
\* the buffer.
TakeAnswer ==
    /\ tool.at = "answer"
    /\ heap' = [heap EXCEPT ![pbuf] = 0]
    /\ pbuf' = NoAddr /\ psize' = 0
    /\ tool' = NoTool
    /\ \/ /\ unread' = {u \in unread : tool.got = 0 \/ u.id # tool.id}
          /\ lost' = lost \cup ({tool.got} \ {0, tool.id})
       \/ /\ UNCHANGED unread
          /\ lost' = lost \cup ({tool.got} \ {0})
    /\ UNCHANGED <<cmd_resps, files, runs>>

Next ==
    \/ SendCommand \/ NoAnswer
    \/ kph_import_config \/ kph_import_ta_data \/ kph_import_ta_key
    \/ kph_gen_key \/ kph_export_key \/ kph_export_device_inf
    \/ get_version \/ get_device_pl_status \/ get_device_truststore \/ get_sn_chipid
    \/ program_cert \/ revoke_cert \/ wait_for_device \/ shutdown_device
    \/ HandleGeneric \/ HandleRecvFile \/ HandleSendFile \/ HandleRead
    \/ TakeAnswer

Spec == Init /\ [][Next]_vars

-----------------------------------------------------------------------------
(* Properties *)

TypeOK ==
    /\ heap \in [Addrs -> 0..100]
    /\ cmd_resps \subseteq [ptr : Addrs, size : OutSizes, id : 1..MaxRuns]
    /\ pbuf \in Addrs \cup {NoAddr} /\ psize \in -1..100 /\ lost \subseteq 1..MaxRuns
    /\ files \in [Files -> {"none", "part", "whole"}]
    /\ tool.at \in {"idle", "sent", "answer"} /\ tool.r \in {"none", "success", "failed"}

\* read_file reports device.finish as read, with size -1, when read failed.
FinishUnread ==
    /\ tool.at = "answer" /\ tool.cmd = "SEND_FILE" /\ tool.file = "device.finish"
    /\ tool.r = "success" /\ psize = -1

\* The buffer that goes back is allocated and as large as it is said to be,
\* after every command, successful or not, but for an unread device.finish,
\* which is a success of size -1; and so is every output that is kept, each in
\* a block of its own.
AnswerFits ==
    /\ TypeOK
    /\ pbuf # NoAddr => psize \in 0..heap[pbuf] \/ FinishUnread
    /\ \A x \in cmd_resps : heap[x.ptr] = x.size /\ x.ptr # pbuf
    /\ \A x, y \in cmd_resps : x.ptr = y.ptr => x = y
    /\ Cardinality({a \in Addrs : heap[a] # 0})
          = Cardinality(cmd_resps) + (IF pbuf = NoAddr THEN 0 ELSE 1)

\* The size of an answer is never negative; MetaSignal.cfg refutes it.
SizesAreSizes == psize >= 0

\* An output the tool was told of stays until a read that returned it: a read
\* with too small a buffer, or without memory, does not lose it; and what a
\* read returns is the output of the command whose answer named it, although
\* addresses are used again.  The entry is erased before the answer is sent: an
\* output whose answer was lost is gone, and a tool that asks for it again can
\* get another one from the same address.
OutputIsKept ==
    /\ \A u \in unread : u \in cmd_resps \/ tool.got = u.id \/ u.id \in lost
    /\ tool.got # 0 => tool.got = tool.id \/ tool.id \in lost

\* A tool gets what it asked for; MetaSignal.cfg refutes it: after a lost
\* answer it does not.
ReadsGetTheirOutput == tool.got \in {0, tool.id}

\* A step that is reported as done was carried out on the device.
SuccessMeansDone ==
    tool.at = "answer" /\ tool.cmd \in KphCmds /\ tool.r = "success" => tool.did
=============================================================================

------------------------------ MODULE Logger ------------------------------
(***************************************************************************)
(* The logger: threads append lines to write_buf under mlock; its own       *)
(* thread swaps the buffer with flush_buf under mlock and writes flush_buf  *)
(* without it; quit() joins the thread and restart() replaces it and        *)
(* removes the file.                                                        *)
(***************************************************************************)
EXTENDS Integers, SequencesExt

CONSTANTS Writers,              \* threads that log
          MaxLines,             \* bound: lines each of them logs
          log_roll_file_size,   \* lines a file holds (1G bytes)
          MaxRestarts           \* bound: calls of set_flush()

VARIABLES lg_pc,        \* the thread: set_flush, wait, flush, roll, test, ended
          write_buf, flush_buf, is_quit,
          flush_to, cur_fd,     \* where set_flush() was told, and did, send lines
          cur_file,     \* lines in the current file (cur_file_size counts them)
          written,      \* lines written to a file or the terminal, in order
          removed,      \* lines in files that restart() removed
          logged,       \* lines given to write(), in order
          failed,       \* a write(2) failed
          qpc_log,      \* the thread that calls quit() or restart()
          restarts,
          constructed   \* the constructor has come to its end
logger_vars == <<lg_pc, write_buf, flush_buf, is_quit, flush_to, cur_fd, cur_file,
                 written, removed, logged, failed, qpc_log, restarts, constructed>>

\* The constructor starts the thread before it initialises the members that are
\* declared behind cur_thread.  Until then they are zero, as the logger is a global:
\* not is_quit, flush_to = file.
Init ==
    /\ lg_pc = "set_flush" /\ write_buf = <<>> /\ flush_buf = <<>>
    /\ is_quit = FALSE /\ flush_to = "file" /\ cur_fd = "none" /\ cur_file = <<>>
    /\ written = <<>> /\ removed = {} /\ logged = <<>> /\ failed = FALSE
    /\ qpc_log = "idle" /\ restarts = 0
    /\ constructed = FALSE

\* is_quit(false), cur_fd(-1), cur_file_size(0), flush_to(file), and filename: the
\* thread that was faster has lost the file that it opened
Construct ==
    /\ ~constructed /\ constructed' = TRUE
    /\ is_quit' = FALSE /\ flush_to' = "file" /\ cur_fd' = "none" /\ cur_file' = <<>>
    /\ UNCHANGED <<lg_pc, write_buf, flush_buf, written, removed, logged, failed, qpc_log, restarts>>

\* write() by a thread, and notify_one() when the buffer is over its size
Write(w) ==
    LET line == <<w, Cardinality({i \in DOMAIN logged : logged[i][1] = w}) + 1>> IN
    /\ constructed /\ line[2] <= MaxLines
    /\ write_buf' = Append(write_buf, line) /\ logged' = Append(logged, line)
    /\ UNCHANGED <<lg_pc, flush_buf, is_quit, flush_to, cur_fd, cur_file, written, removed,
                   failed, qpc_log, restarts, constructed>>

(***************************************************************************)
(* thread_func()                                                            *)
(***************************************************************************)
\* set_flush(): create_new_file(), or the terminal
SetFlush ==
    /\ lg_pc = "set_flush" /\ lg_pc' = "wait"
    /\ cur_fd' = flush_to
    /\ cur_file' = IF flush_to = "file" THEN <<>> ELSE cur_file
    /\ UNCHANGED <<write_buf, flush_buf, is_quit, flush_to, written, removed, logged,
                   failed, qpc_log, restarts, constructed>>

\* wait_for() returns: notified, after log_flush_interval, or spuriously
Swap ==
    /\ lg_pc = "wait" /\ lg_pc' = "flush"
    /\ IF write_buf # <<>> THEN write_buf' = flush_buf /\ flush_buf' = write_buf
       ELSE UNCHANGED <<write_buf, flush_buf>>
    /\ UNCHANGED <<is_quit, flush_to, cur_fd, cur_file, written, removed, logged, failed,
                   qpc_log, restarts, constructed>>

\* flush(): write(2) takes n lines, or fails, always when cur_fd is -1
Flush_drop(n) ==    \* mutant: what a short write left over is dropped
    /\ lg_pc = "flush" /\ cur_fd # "none" /\ n <= Len(flush_buf)
    /\ written' = written \o SubSeq(flush_buf, 1, n) /\ flush_buf' = <<>>
    /\ cur_file' = cur_file \o SubSeq(flush_buf, 1, n)
    /\ UNCHANGED <<lg_pc, write_buf, is_quit, flush_to, cur_fd, removed, logged, failed,
                   qpc_log, restarts, constructed>>
Flush(n) ==
    /\ lg_pc = "flush" /\ cur_fd # "none" /\ n <= Len(flush_buf)
    /\ written' = written \o SubSeq(flush_buf, 1, n)
    /\ flush_buf' = SubSeq(flush_buf, n + 1, Len(flush_buf))
    /\ cur_file' = cur_file \o SubSeq(flush_buf, 1, n)
    /\ UNCHANGED <<lg_pc, write_buf, is_quit, flush_to, cur_fd, removed, logged, failed,
                   qpc_log, restarts, constructed>>
FlushFails ==
    /\ lg_pc = "flush" /\ flush_buf # <<>> /\ lg_pc' = "roll" /\ failed' = TRUE
    /\ UNCHANGED <<write_buf, flush_buf, is_quit, flush_to, cur_fd, cur_file,
                   written, removed, logged, qpc_log, restarts, constructed>>
FlushEnds ==
    /\ lg_pc = "flush" /\ flush_buf = <<>> /\ lg_pc' = "roll"
    /\ UNCHANGED <<write_buf, flush_buf, is_quit, flush_to, cur_fd, cur_file,
                   written, removed, logged, failed, qpc_log, restarts, constructed>>

\* roll_file(): a new file, when the size is reached
RollFile ==
    /\ lg_pc = "roll" /\ lg_pc' = "test"
    /\ IF flush_to = "file" /\ Len(cur_file) >= log_roll_file_size
       THEN cur_file' = <<>> /\ cur_fd' = "file" ELSE UNCHANGED <<cur_file, cur_fd>>
    /\ UNCHANGED <<write_buf, flush_buf, is_quit, flush_to, written, removed,
                   logged, failed, qpc_log, restarts, constructed>>

TestQuit ==
    /\ lg_pc = "test" /\ lg_pc' = IF is_quit THEN "ended" ELSE "wait"
    /\ UNCHANGED <<write_buf, flush_buf, is_quit, flush_to, cur_fd, cur_file,
                   written, removed, logged, failed, qpc_log, restarts, constructed>>

(***************************************************************************)
(* quit(), restart() and set_flush(where)                                   *)
(***************************************************************************)
\* set_flush(where) or the end of the process.  (notify_one() only makes
\* wait_for() return sooner.)
CallQuit(why) ==
    /\ constructed /\ qpc_log = "idle" /\ qpc_log' = why /\ is_quit' = TRUE
    /\ why = "restart" => restarts < MaxRestarts
    /\ flush_to' \in IF why = "restart" THEN {"file", "stdout"} ELSE {flush_to}
    /\ UNCHANGED <<lg_pc, write_buf, flush_buf, cur_fd, cur_file, written, removed,
                   logged, failed, restarts, constructed>>
\* join() has returned: restart() removes the file and starts a thread
Restart ==
    /\ qpc_log = "restart" /\ lg_pc = "ended"
    /\ is_quit' = FALSE /\ cur_file' = <<>> /\ restarts' = restarts + 1
    /\ lg_pc' = "set_flush" /\ qpc_log' = "idle"
    /\ removed' = IF cur_fd = "file" THEN removed \cup ToSet(cur_file) ELSE removed
    /\ UNCHANGED <<written, write_buf, flush_buf, flush_to, cur_fd, logged, failed, constructed>>

\* set_name() on the thread of its caller: the file is unlinked, a new one opened
SetName ==
    /\ cur_fd = "file" /\ lg_pc # "set_flush" /\ cur_file # <<>>
    /\ removed' = removed \cup ToSet(cur_file) /\ cur_file' = <<>>
    /\ UNCHANGED <<lg_pc, write_buf, flush_buf, is_quit, flush_to, cur_fd, written, logged, failed,
                   qpc_log, restarts, constructed>>

Thread == SetFlush \/ Swap \/ (\E n \in 1..Len(flush_buf) : Flush(n)) \/ FlushEnds
          \/ RollFile \/ TestQuit
Next ==
    \/ \E w \in Writers : Write(w)
    \/ Construct \/ Thread \/ FlushFails
    \/ CallQuit("quit") \/ CallQuit("restart") \/ Restart \/ SetName
Spec == Init /\ [][Next]_logger_vars

\* Every line that a thread logs is written once or waits in one of the buffers,
\* and unless a write(2) failed the lines are written in the order they were
\* logged, over every swap, short write, quit() and restart().
LoggedInOrder ==
    LET all == written \o flush_buf \o write_buf IN
    IF failed THEN Len(all) = Len(logged) /\ ToSet(all) = ToSet(logged) ELSE all = logged
=============================================================================

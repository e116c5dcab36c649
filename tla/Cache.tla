------------------------------- MODULE Cache -------------------------------
(***************************************************************************)
(* A static file, the program that changes it, and a client with a cache:  *)
(* request_handle_static looks at the file (stat), answers 304 if the      *)
(* validators of the request say that the client has it, and otherwise     *)
(* opens the file and reads it, block by block, under the validators of    *)
(* what it saw at first.  Between any two of these the file may change, in *)
(* place or by another one that is renamed over it.                        *)
(*                                                                         *)
(* A content is a number, of which each block of the file is one copy.     *)
(***************************************************************************)
EXTENDS Integers, FiniteSets, Sequences

CONSTANTS
    Inodes,
    Sizes,
    PerSecond,          \* ticks of st_mtim in a second
    MaxSecond,          \* bound: seconds
    MaxChanges,         \* bound: changes of the file
    MaxCopies           \* bound: copies in the client's cache

ASSUME CacheAssumption ==
    /\ Sizes \subseteq Nat \ {0}
    /\ PerSecond \in Nat \ {0}
    /\ MaxSecond \in Nat /\ MaxChanges \in Nat /\ MaxCopies \in Nat

VARIABLES
    now,
    disk,               \* for each inode what it holds
    path,               \* the inode the name of the file leads to
    past,               \* history: all that the name has led to
    sends,              \* what the client validates with: "tags" or "dates"
    copies,             \* of the client: sets of [tag, date, body]
    pc, stat_buf,       \* request_handle_static: where it is, what it saw (a set)
    want_fd, body,      \* the inode that is open (a set), and the blocks read
    answered            \* history: the last answer, with the copy that a 304 is
                        \* about and the content of the file when it was given

vars == <<now, disk, path, past, sends, copies, pc, stat_buf, want_fd, body, answered>>

(* Of struct timespec. *)
Times == [sec : 0 .. MaxSecond, nsec : 0 .. PerSecond - 1]

(* What an inode holds: the fields of struct stat, and the content.          *)
Version(mtime, size, content) == [mtime |-> mtime, size |-> size, content |-> content]

(* What stat says of an inode. *)
Seen(ino) == [ino |-> ino, st |-> disk[ino]]

(* Mutant: an entity tag of whole seconds. *)
TagOfSeconds(seen) == <<seen.ino, seen.st.mtime.sec, 0, seen.st.size>>

(* static_etag: the inode, seconds and their fraction, and the size.         *)
StaticEtag(seen) ==
    <<seen.ino, seen.st.mtime.sec, seen.st.mtime.nsec, seen.st.size>>

(* http_date. *)
LastMod(seen) == seen.st.mtime.sec

Blocks == 2
Whole(content) == [b \in 1 .. Blocks |-> content]

Idle == pc' = "idle" /\ stat_buf' = {} /\ want_fd' = {} /\ body' = <<>>

Init ==
    /\ now = [sec |-> 0, nsec |-> 0]
    /\ path \in Inodes
    /\ \E s \in Sizes : disk = [i \in Inodes |-> Version(now, s, 0)]
    /\ past = {Seen(path)}
    /\ sends \in {"tags", "dates"}
    /\ copies = {}
    /\ pc = "idle" /\ stat_buf = {} /\ want_fd = {} /\ body = <<>>
    /\ answered = [status |-> 0]
-----------------------------------------------------------------------------
Tick ==
    /\ \/ now.nsec < PerSecond - 1 /\ now' = [now EXCEPT !.nsec = @ + 1]
       \/ now.nsec = PerSecond - 1 /\ now.sec < MaxSecond
          /\ now' = [sec |-> now.sec + 1, nsec |-> 0]
    /\ UNCHANGED <<disk, path, past, sends, copies, pc, stat_buf, want_fd, body, answered>>

(* The file is changed in place, or another file takes its name, with any    *)
(* date; an inode that is still open is not handed out.  What stat says is   *)
(* new each time: a tick is the granularity of the file system.              *)
Change ==
    /\ Cardinality(past) <= MaxChanges
    /\ \E ino \in Inodes, size \in Sizes, mtime \in Times :
         /\ ino = path => mtime = now
         /\ ino \in want_fd => ino = path
         /\ \A v \in past :
              ~(v.ino = ino /\ v.st.mtime = mtime /\ v.st.size = size)
         /\ path' = ino
         /\ disk' = [disk EXCEPT ![ino] = Version(mtime, size, Cardinality(past))]
         /\ past' = past \cup {Seen(ino)'}
    /\ UNCHANGED <<now, sends, copies, pc, stat_buf, want_fd, body, answered>>
-----------------------------------------------------------------------------
(* static_etag_matches on a list, of which 63 characters are looked at.      *)
StaticEtagMatches(inm, etag) == etag \in inm

(* A date of http_date comes back from http_date_parse as the second it is   *)
(* of.                                                                       *)
NotModifiedSince(seen, ims) == LastMod(seen) <= ims

(* static_not_modified: the client finds the copy by the tag of the answer,  *)
(* or knows which one it asked about.                                        *)
NotModified(by, copy) ==
    /\ answered' = [status |-> 304, by |-> by, copy |-> copy,
                    current |-> disk[path].content]
    /\ Idle

Opens ==
    /\ pc' = "open"
    /\ stat_buf' = {Seen(path)}
    /\ answered' = [status |-> 0]
    /\ UNCHANGED <<want_fd, body>>

(* request_handle_static up to its choice, for a client that sends tags.     *)
ServeTags ==
    /\ pc = "idle" /\ sends = "tags"
    /\ \E asked \in SUBSET copies :
         LET etag == StaticEtag(Seen(path))
             inm == {c.tag : c \in asked}
         IN IF StaticEtagMatches(inm, etag)
            THEN \E c \in asked : c.tag = etag /\ NotModified("tag", c)
            ELSE Opens
    /\ UNCHANGED <<now, disk, path, past, sends, copies>>

(* And for one that sends a date. *)
ServeDate ==
    /\ pc = "idle" /\ sends = "dates"
    /\ \/ \E c \in copies : /\ NotModifiedSince(Seen(path), c.date)
                            /\ NotModified("date", c)
       \/ \E c \in copies : ~NotModifiedSince(Seen(path), c.date) /\ Opens
       \/ Opens
    /\ UNCHANGED <<now, disk, path, past, sends, copies>>

(* static_write: open may fail, and what is sent then is not as long as it   *)
(* said (a file is taken to be longer than a status line).                   *)
Open ==
    /\ pc = "open"
    /\ \/ pc' = "read" /\ want_fd' = {path} /\ UNCHANGED <<stat_buf, body>>
       \/ Idle
    /\ UNCHANGED <<now, disk, path, past, sends, copies, answered>>

Read ==
    /\ pc = "read" /\ Len(body) < Blocks
    /\ \E ino \in want_fd : body' = Append(body, disk[ino].content)
    /\ UNCHANGED <<now, disk, path, past, sends, copies, pc, stat_buf, want_fd, answered>>

(* The client keeps what is as long as Content-Length says; of a file that   *)
(* has grown that is only a part, which is no content at all.                *)
Cut(sent, size, said) == IF size = said THEN sent ELSE Append(sent, -1)

Sent ==
    /\ pc = "read" /\ Len(body) = Blocks
    /\ Idle
    /\ \E seen \in stat_buf, ino \in want_fd :
         LET size == disk[ino].size
             kept == [tag |-> StaticEtag(seen), date |-> LastMod(seen),
                      body |-> Cut(body, size, seen.st.size)]
         IN IF size < seen.st.size \/ Cardinality(copies) = MaxCopies
            THEN UNCHANGED copies
            ELSE copies' = {c \in copies : c.tag # kept.tag} \cup {kept}
    /\ UNCHANGED <<now, disk, path, past, sends, answered>>

Forget ==
    /\ copies # {}
    /\ \E c \in copies : copies' = copies \ {c}
    /\ UNCHANGED <<now, disk, path, past, sends, pc, stat_buf, want_fd, body, answered>>

Next ==
    \/ Tick \/ Change \/ ServeTags \/ ServeDate \/ Open \/ Read \/ Sent \/ Forget

Spec == Init /\ [][Next]_vars
-----------------------------------------------------------------------------
(* What an If-Modified-Since asks of those who change the file: that changes *)
(* are seconds apart and each is dated after the one before.                 *)
Dated ==
    \A u, v \in past :
      u.st.content < v.st.content => LastMod(u) < LastMod(v)

(* Who is told that nothing was modified has the file as it is, whole,       *)
(* whatever happened while the copy was made: never one of which a part is   *)
(* older, nor one that was read after the file it is dated by was replaced.  *)
(* (The validators, taken from a stat before the file is opened.)            *)
NotModifiedIsTrue ==
    answered.status = 304 /\ (answered.by = "date" => Dated) =>
      answered.copy.body = Whole(answered.current)
=============================================================================

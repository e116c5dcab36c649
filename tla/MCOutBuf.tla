------------------------------ MODULE MCOutBuf ------------------------------
(* Instances of OutBuf for TLC: the block is a few bytes long, so that it is *)
(* full, compacted and grown within one response.                            *)
EXTENDS OutBuf

W(k)  == [op |-> "write", n |-> k]
E(op) == [op |-> op, n |-> 0]
Http(c)    == [http |-> TRUE,  calls |-> c]
Command(c) == [http |-> FALSE, calls |-> c]

(* axil_respond with a short body; static_not_modified and a static file     *)
(* that fits one write.                                                      *)
OneWrite == {Http(<<W(3), E("respond")>>), Http(<<W(2), E("static")>>)}

(* axil_respond with a body over 64 KB, request_handle_autoindex: two writes. *)
TwoWrites == {Http(<<W(1), W(3), E("respond")>>), Http(<<W(2), W(2), E("static")>>)}

(* A command that writes several times, or nothing: no mark.                 *)
Commands == {Command(<<W(1), W(2), W(3)>>), Command(<<W(3), W(3)>>), Command(<<>>)}

(* static_write of a file read in three blocks.                              *)
ThreeBlocks == {Http(<<W(2), W(2), W(1), E("static")>>)}

(* axil_sendfile: headers alone, the mapped file, and the epilogue again.    *)
SendFile == {Http(<<W(1), E("headers"), W(2), E("respond")>>)}

(* A body that fills the doubled block exactly.                              *)
BigBody == {Command(<<W(1), W(7)>>)}

AllHandlers ==
    OneWrite \cup TwoWrites \cup Commands \cup ThreeBlocks \cup SendFile \cup BigBody
=============================================================================

------------------------------- MODULE Packet -------------------------------
(***************************************************************************)
(* sensor/include/packet.cpp: the packet the sensor hands to its modules,  *)
(* one object for all of them.                                             *)
(*                                                                         *)
(* Of a captured frame there are the protocol and the fragment bits at the *)
(* places where the code looks for them; the size that the header of its   *)
(* protocol says it has, or has by definition; and the number of bytes     *)
(* captured after the 34 of Ethernet and of IP without options, less than  *)
(* none if the frame was cut before.  Options, and the padding of short    *)
(* frames, count like the rest, as they do in the code.                    *)
(***************************************************************************)
EXTENDS Integers

Protocols == {"icmp", "tcp", "udp", "other"}

(* The bytes before the payload, after the header of IP.  The code has     *)
(* such a size for three protocols only.                                   *)
Sized(frame) == frame.fragmented \/ frame.protocol # "other"
HeaderSize(frame) == IF frame.fragmented THEN 0 ELSE frame.header

(* A header that is not there in full: the packet is discarded.            *)
Malformed(frame) ==
    ~frame.fragmented /\ frame.protocol # "other" /\ frame.header > frame.size

(* initialize(), of a packet that is not malformed.  For a protocol it     *)
(* does not know, the size of the payload is that of the packet before.    *)
(* The size has 16 bits: of a fragment that was cut within the header of   *)
(* IP it is too big.                                                       *)
initialize(packet, frame) ==
    [frame |-> frame,
     payloadSize |-> IF Sized(frame)
                     THEN (frame.size - HeaderSize(frame)) % 65536
                     ELSE packet.payloadSize]

=============================================================================

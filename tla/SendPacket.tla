----------------------------- MODULE SendPacket -----------------------------
(***************************************************************************)
(* include/iuring/SendPacket.hpp: the packet of a work item.  Its buffer   *)
(* holds the pieces that were appended, of m_size bytes together; a piece  *)
(* has a length and is what its caller put there.                          *)
(***************************************************************************)
EXTENDS Naturals, Sequences

CONSTANT PacketCapacity     \* bytes of m_buf

ASSUME PacketAssumption == PacketCapacity \in Nat

empty_packet == [m_size |-> 0, m_buf |-> << >>]

\* The assertion of append: a packet never fills its buffer to the last byte.
append_fits(packet, piece) == packet.m_size + piece.len < PacketCapacity

append(packet, piece) ==
    [m_size |-> packet.m_size + piece.len, m_buf |-> Append(packet.m_buf, piece)]

\* reset forgets the pieces, and get_send_packet hands out a packet that was
\* reset.
reset(packet) == empty_packet

get_send_packet(packet) == reset(packet)
=============================================================================

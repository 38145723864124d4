--------------------------- MODULE MCAddressSpaces --------------------------
(* Values of AddressSpaces' constants that a configuration cannot write.   *)
EXTENDS AddressSpaces

MCImage == << <<0, 0>> >>
MCStack == << <<0, 1>> >>
MCHeap == { <<1, 0>> }
MCFile == { <<1, 1>> }
MCPrivateBuffers == { <<0, 1>>, <<1, 0>> }
MCImageBuffer == { <<0, 0>> }
=============================================================================

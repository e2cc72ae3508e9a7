------------------------------ MODULE Packets ------------------------------
(***************************************************************************)
(* What both forwarders do to one frame, and the two sides of a port.      *)
(*                                                                         *)
(* A frame is a record: id numbers it in the order of arrival, at is the   *)
(* port it first came in on, marked says whether its ether type is         *)
(* MARK_ETHER_TYPE, body is "plain", "cipher" or "empty", enc counts the   *)
(* calls of real_encrypt() on it, up to 2.                                 *)
(*                                                                         *)
(* The ports are net_pcap devices on a veth pair: the kernel holds a       *)
(* bounded queue of frames for a port, receiving copies frames of it into  *)
(* mbufs, sending copies mbufs onto the wire and frees them at once.       *)
(***************************************************************************)
EXTENDS Integers, Sequences, FiniteSetsExt

\* init_crypto_contexts(), on an EVP_CIPHER_CTX that is not created ("null"),
\* initialised ("ready") or without a cipher ("blank").
InitCryptoContext(ctx) == IF ctx = "null" THEN "ready" ELSE ctx

\* EVP_CIPHER_CTX_reset() clears the cipher and the key of a context.
CtxReset(ctx) == "blank"

\* EVP_EncryptUpdate() and EVP_EncryptFinal_ex(): on a context without a
\* cipher both fail and write nothing; real_encrypt() ignores their results.
EncryptOut(ctx, body) == IF ctx = "ready" THEN "cipher" ELSE "empty"

\* real_encrypt(): the context is reset, its output replaces the payload and
\* the frame is marked.
RealEncrypt(f, ctx) ==
    [f EXCEPT !.body = EncryptOut(CtxReset(ctx), f.body),
              !.marked = TRUE,
              !.enc = IF f.enc = 2 THEN 2 ELSE f.enc + 1]

\* real_decrypt(): the frame is freed right after it, so only what becomes of
\* the context remains.
RealDecrypt(ctx) == CtxReset(ctx)

\* Mutant: the ether type is compared in the wrong byte order.
IsMarkedByteOrder(f) == FALSE

\* rte_be_to_cpu_16(eth->ether_type) == MARK_ETHER_TYPE
IsMarked(f) == f.marked

InSeq(s) == {s[i] : i \in 1 .. Len(s)}

\* The frames of s that are in S, in their order.
Select(s, S) ==
    LET F[i \in 0 .. Len(s)] ==
            IF i = 0 THEN <<>>
            ELSE IF s[i] \in S THEN Append(F[i - 1], s[i]) ELSE F[i - 1]
    IN  F[Len(s)]

\* The numbers of the frames of s.
Ids(s) == [i \in 1 .. Len(s) |-> s[i].id]

-----------------------------------------------------------------------------
(* The devices.                                                            *)

\* Frames fs reach a port for which the kernel holds q, at most cap frames.
Arrive(q, fs, cap) ==
    LET all == q \o fs IN SubSeq(all, 1, Min({Len(all), cap}))

\* rte_eth_rx_burst() on a port with len frames waiting: how many it returns,
\* and how many it takes from the kernel.  A frame that was taken when no mbuf
\* is left is lost.
RxCount(len, size, free) == Min({len, size, free})
RxTaken(len, size, free) ==
    IF free < Min({len, size}) THEN free + 1 ELSE Min({len, size})

\* rte_eth_tx_burst(): the driver sends the n oldest of the frames fs.
Taken(fs, n) == SubSeq(fs, 1, n)

Rest(fs, n) == SubSeq(fs, n + 1, Len(fs))
=============================================================================

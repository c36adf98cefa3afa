------------------------------ MODULE Mac802154 ------------------------------
(***************************************************************************)
(* Secured frames of the AES ranging programs: the header handling of      *)
(* dw3000_mac_802_15_4.cpp and the AES calls of dw3000_device_api.cpp.     *)
(* A header is a record of the fields these functions read or write.  A    *)
(* secured payload is known by the key and the nonce that sealed it; it is *)
(* opened by the same key and nonce only.  Lengths are in octets.          *)
(***************************************************************************)
EXTENDS Dw3000, Sequences

(* mhr_802_15_4_t: frame control, sequence number, addresses and the        *)
(* auxiliary security header of level, frame counter and key index.         *)
Header(src, dst, cnt, key) ==
  [ secure |-> TRUE, dst |-> dst, src |-> src, level |-> 7, cnt |-> cnt,
    key |-> key ]

MAC_FRAME_HEADER_SIZE == 2 + 1 + 2 + 8 + 8 + 6

FCS_LEN == 2
TX_BUFFER_MAX_LEN == 1024
RX_BUFFER_MAX_LEN == 1023
SCRATCH_BUFFER_MAX_LEN == 127
STS_LEN_128BIT == 16
MIC_ERROR == 255

mac_frame_set_pan_ids_and_addresses(mac, dest_addr, src_addr) ==
  [mac EXCEPT !.dst = dest_addr, !.src = src_addr]

mac_frame_update_aux_frame_cnt(mac, frame_cnt) == [mac EXCEPT !.cnt = frame_cnt]

(* What makes a nonce of the source address, the frame counter and the      *)
(* security level.                                                          *)
mac_frame_get_nonce(mac) == <<mac.src, mac.cnt, mac.level>>

(* The length of the integrity code by security level. *)
mac_frame_get_aux_mic_size(mac) ==
  IF mac.level = 0 THEN 0
  ELSE IF mac.level \in {1, 5} THEN 4
  ELSE IF mac.level \in {2, 6} THEN 8
  ELSE IF mac.level \in {3, 7} THEN 16
  ELSE MIC_ERROR

get_security_state(mac) == mac.secure

get_src_and_dst_frame_addr(mac) == <<mac.src, mac.dst>>

(* The length of the integrity code as the chip is told: none, or one of    *)
(* seven steps of two octets from 4 to 16; from 2 octets on the steps would *)
(* start with "none".                                                       *)
dwt_mic_size_from_bytes(bytes) == IF bytes = 0 THEN 0 ELSE (bytes \div 2) - 1

-------------------------------------------------------------------------------
(* dwt_do_aes *)

(* The nonce registers take everything of the nonce; CCM also the length of *)
(* the payload, in two octets.                                              *)
dwt_update_nonce_CCM(nonce, payload) == nonce \o <<payload % 65536>>

dwt_update_nonce_GCM(nonce) == nonce

(* The nonce registers of a job. *)
NonceOf(job, core_type) ==
  IF core_type = "GCM" THEN dwt_update_nonce_GCM(job.nonce)
  ELSE dwt_update_nonce_CCM(job.nonce, job.payload_len)

(* How many octets the buffer of a job takes. *)
AllowSize(job) ==
  IF job.mode = "Encrypt"
  THEN IF job.src = "Scratch" THEN SCRATCH_BUFFER_MAX_LEN ELSE TX_BUFFER_MAX_LEN
  ELSE IF job.dst = "Scratch" THEN SCRATCH_BUFFER_MAX_LEN ELSE RX_BUFFER_MAX_LEN

(* How the engine's job ends, apart from the integrity code: it may fail to *)
(* transfer, or find its memory in use.                                     *)
EngineErrors == {"TRANS_ERR", "MEM_CONF"}
EngineResults == {"OK"} \cup EngineErrors

(* A job fails before the engine is started, or in the engine, or the       *)
(* integrity code does not match, or it is done.  "key" and "sealed" are    *)
(* the key register and, for a payload to be opened, what sealed it.        *)
dwt_do_aes(job, core_type, engine) ==
  LET seal == <<job.key, NonceOf(job, core_type), dwt_mic_size_from_bytes(job.mic_size)>>
  IN  IF job.mic_size = MIC_ERROR THEN [ret |-> "ERROR_WRONG_MIC_SIZE"]
      ELSE IF job.mode \notin {"Encrypt", "Decrypt"} THEN [ret |-> "ERROR_WRONG_MODE"]
      ELSE IF MAC_FRAME_HEADER_SIZE + job.payload_len
                > AllowSize(job) - job.mic_size - FCS_LEN
      THEN [ret |-> "ERROR_DATA_SIZE"]
      ELSE IF job.dst = "STS_key" /\ job.payload_len > STS_LEN_128BIT
      THEN [ret |-> "ERROR_PAYLOAD_SIZE"]
      ELSE IF engine # "OK" THEN [ret |-> engine]
      ELSE IF job.mode = "Encrypt" THEN [ret |-> "DONE", seal |-> seal]
      ELSE IF job.sealed = seal THEN [ret |-> "DONE"]
      ELSE [ret |-> "AUTH_ERR"]

AES_ERRORS == {"AUTH_ERR"} \cup EngineErrors

NegativeResults == {"ERROR_WRONG_MIC_SIZE", "ERROR_WRONG_MODE",
                    "ERROR_DATA_SIZE", "ERROR_PAYLOAD_SIZE"}

(* The job of sending a payload with a header, and the frame's length.      *)
EncryptJob(mac, payload_len) ==
  [ mode |-> "Encrypt", src |-> "Tx_buf", dst |-> "Tx_buf", key |-> mac.key,
    nonce |-> mac_frame_get_nonce(mac), payload_len |-> payload_len,
    mic_size |-> mac_frame_get_aux_mic_size(mac) ]

SecuredLength(mac, payload_len) ==
  MAC_FRAME_HEADER_SIZE + payload_len + mac_frame_get_aux_mic_size(mac) + FCS_LEN

(* rx_aes_802_15_4: whether a received frame is for this device, well       *)
(* formed and opened by the key it names.                                   *)
rx_aes_802_15_4(frame, max_payload, exp_src_addr, exp_dst_addr, engine) ==
  LET mac == frame.mac
      mic == mac_frame_get_aux_mic_size(mac)
      payload_len == frame.len - (MAC_FRAME_HEADER_SIZE + mic + FCS_LEN)
      done == dwt_do_aes([ mode |-> "Decrypt", src |-> "Rx_buf", dst |-> "Rx_buf",
                           key |-> mac.key, nonce |-> mac_frame_get_nonce(mac),
                           payload_len |-> payload_len, mic_size |-> mic,
                           sealed |-> frame.seal ], "CCM", engine).ret
  IN  IF frame.len - FCS_LEN < MAC_FRAME_HEADER_SIZE THEN "ERROR_FRAME"
      ELSE IF \/ ~get_security_state(mac)
              \/ get_src_and_dst_frame_addr(mac) # <<exp_src_addr, exp_dst_addr>>
      THEN "ERROR_IGNORE_FRAME"
      ELSE IF mic = MIC_ERROR \/ payload_len < 0 \/ payload_len > max_payload
      THEN "ERROR_FRAME"
      ELSE IF done \in NegativeResults THEN "ERROR_LENGTH"
      ELSE IF done \in AES_ERRORS THEN "ERROR" ELSE "OK"
=============================================================================

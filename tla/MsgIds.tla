------------------------------- MODULE MsgIds -------------------------------
(***************************************************************************)
(* Message identifiers: three bytes, the owner's module ID, the type and   *)
(* the function ID, packed into one word. Shifts and masks are products    *)
(* and remainders here; the or of fields that do not overlap is a sum.     *)
(***************************************************************************)
EXTENDS Naturals, Sequences

Byte == 0..255   \* SvcId_t, FuncId_t and the underlying type of MsgType_t

MsgId_t == {id \in Nat : id < 16777216}   \* the bits of a uint32_t that the fields fill

MsgIdRsvd == 0

MsgType_t == [WAKEUP |-> 0, CMD |-> 1, TLM |-> 2, RESP |-> 3, TLM_REQ |-> 4]

\* A left shift of a byte by 16 bits, and by 8 bits.
to_msg_id(VModId, VMsgType, VFuncId) == VModId * 65536 + VMsgType * 256 + VFuncId

\* to_mod_id and ExtractModId, whose result has the type of a byte.
to_mod_id(msg_id) == (msg_id \div 65536) % 256

\* to_msg_type_id and ExtractMsgType
to_msg_type_id(msg_id) == (msg_id \div 256) % 256

\* to_func_id and ExtractFuncId
to_func_id(msg_id) == msg_id % 256

\* The type byte is masked out, the one of TLM put in its place.
ConvertToTlmId(id) ==
  (id \div 65536) * 65536 + MsgType_t.TLM * 256 + (id % 256)

wakeup(mod) == to_msg_id(mod, MsgType_t.WAKEUP, 0)

command(mod, func) == to_msg_id(mod, MsgType_t.CMD, func)

telemetry(mod, func) == to_msg_id(mod, MsgType_t.TLM, func)

telemetry_request(mod, func) == to_msg_id(mod, MsgType_t.TLM_REQ, func)

\* The request that TlmReqHandler of application mod derives from a telemetry
\* message it holds.
MakeReqMsg(mod, tlm_id) == telemetry_request(mod, to_func_id(tlm_id))

\* The index in the tuple of messages, whose IDs are given, at which the one
\* asked for is found, 0 if there is none. Every further instantiation of the
\* template gets the converted ID and converts it again.
find_by_req_id(ids, RequestId) ==
  LET find[idx \in 1..(Len(ids) + 1), id \in Nat] ==
        IF idx > Len(ids) THEN 0
        ELSE IF ids[idx] = ConvertToTlmId(id) THEN idx
        ELSE find[idx + 1, ConvertToTlmId(id)]
  IN  find[1, RequestId]

=============================================================================

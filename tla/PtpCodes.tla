------------------------------ MODULE PtpCodes ------------------------------
(***************************************************************************)
(* The PTP return-code table of src/ptpcodes.c and its lookup, which      *)
(* push_api_error_ptp uses for the msg of every "ptp" error object that   *)
(* the connection calls throw (api_check_ptp_throw, CHDK_ENSURE_CONNECTED). *)
(*                                                                         *)
(* A table entry is its code and its id; the description text is a model *)
(* value per id, Txt(id), since no property looks at the wording.  The    *)
(* codes are those of ptp.h: the standard codes run from 0x2000 in table  *)
(* order, the internal PTP_ERROR_* codes count down from 0x02FF.          *)
(***************************************************************************)
EXTENDS Naturals, Sequences

Txt(id) == <<"txt", id>>

(* ptp_rcodes_STD: the standard response codes, the internal error codes, *)
(* and the {0,NULL,NULL} entry that ends the table.                       *)
StdIds ==
    <<"Undefined", "OK", "GeneralError", "SessionNotOpen",
      "InvalidTransactionID", "OperationNotSupported", "ParameterNotSupported",
      "IncompleteTransfer", "InvalidStorageId", "InvalidObjectHandle",
      "DevicePropNotSupported", "InvalidObjectFormatCode", "StoreFull",
      "ObjectWriteProtected", "StoreReadOnly", "AccessDenied",
      "NoThumbnailPresent", "SelfTestFailed", "PartialDeletion",
      "StoreNotAvailable", "SpecificationByFormatUnsupported",
      "NoValidObjectInfo", "InvalidCodeFormat", "UnknownVendorCode",
      "CaptureAlreadyTerminated", "DeviceBusy", "InvalidParentObject",
      "InvalidDevicePropFormat", "InvalidDevicePropValue", "InvalidParameter",
      "SessionAlreadyOpened", "TransactionCanceled",
      "SpecificationOfDestinationUnsupported", "InvalidEnumHandle",
      "NoStreamEnabled", "InvalidDataSet">>
InternalIds ==
    <<"ERROR_IO", "ERROR_BADPARAM", "ERROR_DATA_EXPECTED",
      "ERROR_RESP_EXPECTED", "ERROR_NOT_CONNECTED">>
InternalCode == [ERROR_IO |-> 767, ERROR_DATA_EXPECTED |-> 766,
                 ERROR_RESP_EXPECTED |-> 765, ERROR_BADPARAM |-> 764,
                 ERROR_NOT_CONNECTED |-> 763]

ptp_rcodes_STD ==
    [i \in 1..Len(StdIds) |->
        [error |-> 8192 + i - 1, id |-> StdIds[i], txt |-> Txt(StdIds[i])]]
    \o [i \in 1..Len(InternalIds) |->
        [error |-> InternalCode[InternalIds[i]], id |-> InternalIds[i],
         txt |-> Txt(InternalIds[i])]]
    \o <<[error |-> 0, id |-> "NULL", txt |-> "NULL"]>>

-----------------------------------------------------------------------------
\* Fault-injected variant: the loop stops one entry early.
RECURSIVE SearchStopsEarly(_, _)
SearchStopsEarly(error, i) ==
    IF ptp_rcodes_STD[i + 1].error = 0 THEN ptp_rcodes_STD[1]
    ELSE IF ptp_rcodes_STD[i].error = error THEN ptp_rcodes_STD[i]
    ELSE SearchStopsEarly(error, i + 1)

(* The for loop of ptp_get_error_by_code from entry i: the first entry    *)
(* with the code, or entry 0 ("Undefined Error") at the terminator.       *)
RECURSIVE Search(_, _)
Search(error, i) ==
    IF ptp_rcodes_STD[i].error = 0 THEN ptp_rcodes_STD[1]
    ELSE IF ptp_rcodes_STD[i].error = error THEN ptp_rcodes_STD[i]
    ELSE Search(error, i + 1)

ptp_get_error_by_code(error) == Search(error, 1)

ptp_strerror(error) == ptp_get_error_by_code(error).txt

(* push_api_error_ptp(L, code): the fields of the error object it throws. *)
PtpErrorObject(code) ==
    [etype |-> "ptp", ptp_rc |-> code, msg |-> ptp_strerror(code)]

=============================================================================

---------------------------- MODULE Dispatchers ----------------------------
(***************************************************************************)
(* What the core objects do with a request: the _dispatcher of each object *)
(* type in src/co_*.c.  A command is named for the operation it asks for,  *)
(* except where several commands share one.                                *)
(***************************************************************************)
EXTENDS TLC

\* Each of the commands is the name of its operation.
Own(S) == [c \in S |-> c]

ModemOps == Own({"power_on", "power_off", "power_reset", "set_flight_mode", "get_imei",
                 "get_version", "get_sn", "dun_pin_ctrl"})

CallOps == Own({"dial", "answer", "end", "hold", "active", "swap", "join", "split",
                "deflect", "transfer", "send_dtmf", "set_sound_path",
                "get_sound_volume_level", "set_sound_volume_level", "mute", "unmute",
                "get_mute_status", "set_sound_recording", "set_sound_equalization",
                "set_sound_noise_reduction"})

SsOps == Own({"barring_activate", "barring_deactivate", "barring_change_password",
              "barring_get_status", "forwarding_activate", "forwarding_deactivate",
              "forwarding_register", "forwarding_deregister", "forwarding_get_status",
              "waiting_activate", "waiting_deactivate", "waiting_get_status",
              "cli_activate", "cli_deactivate", "cli_get_status", "send_ussd",
              "set_aoc", "get_aoc"})

NetworkOps == Own({"search", "set_plmn_selection_mode", "get_plmn_selection_mode",
                   "set_service_domain", "get_service_domain", "set_band", "get_band",
                   "set_preferred_plmn", "get_preferred_plmn", "set_order", "get_order",
                   "set_power_on_attach", "get_power_on_attach",
                   "set_cancel_manual_search", "get_serving_network", "set_mode",
                   "get_mode"})

SmsOps == Own({"send_umts_msg", "read_msg", "save_msg", "delete_msg", "get_storedMsgCnt",
               "get_sca", "set_sca", "get_cb_config", "set_cb_config", "set_mem_status",
               "get_pref_brearer", "set_pref_brearer", "set_delivery_report",
               "set_msg_status", "get_sms_params", "set_sms_params", "get_paramcnt",
               "send_cdma_msg"})

SapOps == Own({"connect", "disconnect", "req_status", "get_atr", "transfer_apdu",
               "set_transport_protocol", "set_power", "get_cardreader_status"})

PhonebookOps == Own({"select", "get_count", "get_info", "get_usim_info", "read_record",
                     "update_record", "delete_record"})

\* The files that a SIM command reads or updates share one operation each.
SimOps ==
  Own({"verify_pins", "verify_puks", "change_pins", "get_facility_status",
       "disable_facility", "enable_facility", "get_lock_info", "transmit_apdu",
       "get_atr", "req_authentication"})
  @@ [c \in {"SET_LANGUAGE", "SET_CALLFORWARDING"} |-> "update_file"]
  @@ [c \in {"GET_ECC", "GET_LANGUAGE", "GET_ICCID", "GET_MAILBOX", "GET_CALLFORWARDING",
             "GET_MESSAGEWAITING", "GET_CPHS_INFO", "GET_MSISDN", "GET_SPN", "GET_SPDI",
             "GET_OPL", "GET_PNN", "GET_CPHS_NETNAME", "GET_OPLMNWACT"} |-> "read_file"]

SatOps == Own({"envelope", "terminal_response"})
GpsOps == Own({"confirm_measure_pos"})
PsOps == Own({})

Categories == {"modem", "call", "ss", "network", "sms", "sap", "phonebook", "sim", "sat",
               "gps", "ps"}

OpsOf(category) ==
  CASE category = "modem" -> ModemOps [] category = "call" -> CallOps
    [] category = "ss" -> SsOps [] category = "network" -> NetworkOps
    [] category = "sms" -> SmsOps [] category = "sap" -> SapOps
    [] category = "phonebook" -> PhonebookOps [] category = "sim" -> SimOps
    [] category = "sat" -> SatOps [] category = "gps" -> GpsOps
    [] category = "ps" -> PsOps

\* Operations that are called without a look whether they are there.
Unguarded(category) ==
  CASE category = "ss" -> DOMAIN SsOps
    [] category = "call" -> DOMAIN CallOps \ {"dial", "answer", "end"}
    [] OTHER -> {}

\* What a dispatcher does with a command: it calls the operation, or returns
\* at once.  ops are the operations that the plugin has provided (all absent
\* for ops = NULL), ready is the ready status of an SMS object.  A command that
\* is unknown counts as done everywhere but at the modem.
Dispatched(category, cmd, ops, ready) ==
  CASE ops = {} -> "ENOSYS"
    [] ops # {} /\ category = "sms" /\ ~ready -> "ENOSYS"
    [] ops # {} /\ (category = "sms" => ready) /\ cmd \notin DOMAIN OpsOf(category) ->
         IF category = "modem" THEN "EINVAL" ELSE "SUCCESS"
    [] OTHER -> IF OpsOf(category)[cmd] \in ops THEN "call"
                ELSE IF cmd \in Unguarded(category) THEN "crash" ELSE "ENOSYS"
=============================================================================

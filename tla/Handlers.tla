------------------------------ MODULE Handlers ------------------------------
(***************************************************************************)
(* The handlers of pyocppsrv.ChargePoint: which actions are routed, what   *)
(* each handler wants and answers, and what it does to the ChargePoint and *)
(* its Connectors; and the requests that the methods of ChargePoint make.  *)
(*                                                                         *)
(* A meter value is a sequence of samples [measurand, phase, value]; value *)
(* is a number or Unreadable, measurand and phase are Absent if not given. *)
(***************************************************************************)
EXTENDS Integers, Sequences

CONSTANTS
  DcCharger,      \* charge_type is 2
  DcVoltage,      \* charge_dc_voltage
  DcEfficiency,   \* charge_dc_efficiency, in percent
  Unreadable,     \* a value that float() rejects
  Absent          \* a key that is not there

ASSUME ChargerAssumption ==
  DcCharger \in BOOLEAN /\ DcVoltage \in Nat /\ DcEfficiency \in Nat

-----------------------------------------------------------------------------
(* Routing.                                                                *)

\* What on() registers of a handler: the parameters without default that it
\* takes from the payload, the fields of the answer that it returns, and the
\* enumerated value in it.  No handler skips the validation.
Handler(params, objects, value) ==
  [params |-> params, objects |-> objects, value |-> value]
Answer(fields) == [top |-> fields]
Accepted(object) == <<object, "status", "Accepted">>
NoStatus == [top |-> {"id_tag_info"}, IdTagInfo |-> {}] \* mutant
TagInfo == [top |-> {"id_tag_info"}, IdTagInfo |-> {"status"}]

RouteMap ==
  [BootNotification |->
     Handler({"charge_point_vendor", "charge_point_model"},
             Answer({"current_time", "interval", "status"}), Accepted("top")),
   Authorize |-> Handler({"id_tag"}, TagInfo, Accepted("IdTagInfo")),
   StartTransaction |->
     Handler({"connector_id", "id_tag", "meter_start"},
             [TagInfo EXCEPT !.top = @ \union {"transaction_id"}],
             Accepted("IdTagInfo")),
   StopTransaction |-> Handler({}, Answer({}), <<>>),
   Heartbeat |-> Handler({}, Answer({"current_time"}), <<>>),
   StatusNotification |->
     Handler({"connector_id", "error_code", "status"}, Answer({}), <<>>),
   MeterValues |-> Handler({"connector_id"}, Answer({}), <<>>),
   FirmwareStatusNotification |-> Handler({}, Answer({}), <<>>),
   DataTransfer |-> Handler({}, Answer({"status"}), Accepted("top"))]

-----------------------------------------------------------------------------
(* The ChargePoint and its Connectors.                                     *)

Readings ==
  {"current", "current_L2", "current_L3", "voltage", "voltage_L2",
   "voltage_L3", "energy", "soc", "power"}

ASSUME AbsentAssumption == Absent \notin Readings

\* Connector.__init__()
NewConnector(id) ==
  [transaction_id |-> id, cp_status |-> "", is_charing |-> FALSE,
   reading |-> [f \in Readings |-> 0]]

\* ChargePoint.__init__(), which creates connector 1 at once.
NewChargePoint ==
  [connect_status |-> TRUE, id_tag |-> "1", firmware_version |-> "",
   meterValueSampleInterval |-> 0, connector |-> [i \in {1} |-> NewConnector(i)]]

\* get_connector(): 0 stands for connector 1; one not seen before is created.
AsSent(id) == id \* mutant: connector 0 is one of its own
ConnectorId(id) == IF id = 0 THEN 1 ELSE id
GetConnector(cp, id) ==
  IF ConnectorId(id) \in DOMAIN cp.connector THEN cp.connector[ConnectorId(id)]
  ELSE NewConnector(ConnectorId(id))
SetConnector(cp, id, c) ==
  [cp EXCEPT !.connector = [i \in DOMAIN @ \union {ConnectorId(id)} |->
                              IF i = ConnectorId(id) THEN c ELSE @[i]]]

\* on_boot_notification()
OnBoot(cp, args) ==
  [cp EXCEPT !.firmware_version =
               IF args.firmware = Absent THEN @ ELSE args.firmware,
             !.connect_status = TRUE]

\* on_status_notification(), but for the report
Charging == {"Charging", "SuspendedEV", "SuspendedEVSE", "Faulted"}
OnStatus(cp, args) ==
  LET c == [GetConnector(cp, args.connector) EXCEPT
              !.cp_status = args.status,
              !.is_charing = args.status \in Charging]
  IN  SetConnector(cp, args.connector,
        IF args.status = "Finishing"
        THEN [c EXCEPT !.reading = [@ EXCEPT !["current"] = 0, !["power"] = 0]]
        ELSE c)

\* The field that a sample goes to, Absent if to none.
PhaseField(l1, l2, l3, phase) ==
  CASE phase \in {Absent, "L1"} -> l1
    [] phase = "L2" -> l2
    [] phase = "L3" -> l3
    [] OTHER -> Absent
Field(sample) ==
  CASE sample.measurand = "Current.Import" ->
         PhaseField("current", "current_L2", "current_L3", sample.phase)
    [] sample.measurand = "Voltage" ->
         PhaseField("voltage", "voltage_L2", "voltage_L3", sample.phase)
    [] sample.measurand = "Energy.Active.Import.Register" -> "energy"
    [] sample.measurand = "SoC" -> "soc"
    [] sample.measurand = "Power.Active.Import" -> "power"
    [] OTHER -> Absent
\* Currents are kept in mA.
Scaled(sample) ==
  IF sample.measurand = "Current.Import" THEN sample.value * 1000
  ELSE sample.value

\* One sample: int(float(value)) raises if the value is unreadable, and
\* nothing is read any more.
SkipUnreadable(acc, sample) == \* mutant: an unreadable value is passed over
  IF sample.value = Unreadable \/ Field(sample) = Absent THEN acc
  ELSE [acc EXCEPT !.reading = [@ EXCEPT ![Field(sample)] = Scaled(sample)]]
ReadSample(acc, sample) ==
  IF acc.raised \/ sample.value = Unreadable THEN [acc EXCEPT !.raised = TRUE]
  ELSE IF Field(sample) = Absent THEN acc
  ELSE [acc EXCEPT !.reading = [@ EXCEPT ![Field(sample)] = Scaled(sample)]]

\* The samples in their order.
ReadSamples(reading, samples) ==
  LET read[n \in 0..Len(samples)] ==
        IF n = 0 THEN [reading |-> reading, raised |-> FALSE]
        ELSE ReadSample(read[n - 1], samples[n])
  IN  read[Len(samples)]

\* "recalc current for DC charge": a third of the power at charge_dc_voltage,
\* in amperes that int() rounds towards zero.
DcCurrent(power) ==
  LET amps(watts) == (watts * 100) \div (3 * DcVoltage * DcEfficiency)
  IN  1000 * IF power < 0 THEN -amps(-power) ELSE amps(power)
Recalculate(r) ==
  IF DcCharger /\ r["power"] # 0 /\ DcVoltage # 0 /\ DcEfficiency # 0
  THEN [r EXCEPT !["voltage"] = DcVoltage, !["current"] = DcCurrent(r["power"])]
  ELSE r

\* on_MeterValues(): whatever is raised, it answers as if all were well.
OnMeterValues(cp, args) ==
  LET c == GetConnector(cp, args.connector)
      read == ReadSamples(c.reading, args.samples)
  IN  SetConnector(cp, args.connector,
        [c EXCEPT
           !.transaction_id = IF args.transaction = 0 THEN @
                              ELSE args.transaction,
           !.reading = IF read.raised THEN read.reading
                       ELSE Recalculate(read.reading)])

\* What the handler of each action does to the ChargePoint.
Handle(cp, action, args) ==
  CASE action = "BootNotification" -> OnBoot(cp, args)
    [] action = "Authorize" -> [cp EXCEPT !.id_tag = args.idTag]
    [] action = "StartTransaction" ->
         SetConnector(cp, args.connector, GetConnector(cp, args.connector))
    [] action = "Heartbeat" -> [cp EXCEPT !.connect_status = TRUE]
    [] action = "StatusNotification" -> OnStatus(cp, args)
    [] action = "MeterValues" -> OnMeterValues(cp, args)
    [] OTHER -> cp

\* The calls that a handler starts as tasks of their own.
Tasks(action, args) ==
  CASE action = "BootNotification" -> {"set_config", "get_config"}
    [] action = "StatusNotification" /\ args.status = "Finishing" ->
         {"trigger_meter_values"}
    [] OTHER -> {}
=============================================================================

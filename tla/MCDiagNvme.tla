----------------------------- MODULE MCDiagNvme -----------------------------
(* A small instance of DiagNvme.                                           *)
EXTENDS DiagNvme

MCDevices == <<"nvme0", "nvme1", "nvme2">>

(* Every field has a value of its own, so that none is mistaken for        *)
(* another; the percentage used is at the limit of its byte.               *)
Log(crit, hours, written) ==
  [critical_warning |-> crit, composite_temp |-> 11, avail_spare |-> 12,
   avail_spare_threshold |-> 13, percentage_used |-> 255,
   endurance_group_crit_warn_summary |-> 15, data_units_read |-> 16,
   data_units_written |-> written, host_reads_cmd |-> 18,
   host_writes_cmd |-> 19, ctrl_busy_time |-> 20, power_cycles |-> 21,
   power_on_hours |-> hours, unsafe_shutdowns |-> 23,
   media_data_integrity_err |-> 24, num_err_info_log_entries |-> 25,
   warn_composite_temp_time |-> 26, crit_composite_temp_time |-> 27,
   temp_sensor1 |-> 28, temp_sensor2 |-> 29, temp_sensor3 |-> 30,
   temp_sensor4 |-> 31, temp_sensor5 |-> 32, temp_sensor6 |-> 33,
   temp_sensor7 |-> 34, temp_sensor8 |-> 35,
   thrm_mgmt_temp1_trans_count |-> 36, thrm_mgmt_temp2_trans_count |-> 37,
   total_time_thm_mgmt_temp1 |-> 38, total_time_thm_mgmt_temp2 |-> 39]

MCLogs == [healthy |-> Log(0, 719, 60000), spare |-> Log(3, 720, 0), hot |-> Log(2, 720, 60000)]
MCConfigs ==
  {<<>>, <<<<"?", 0>>>>,
   <<<<"AVAILABLE_SPARE_CAPACITY", 0>>, <<"SMART_LOG_MISSING", 0>>, <<"WRITE_RATE", 0>>,
     <<"AVAILABLE_SPARE_CAPACITY", 1>>, <<"WRITE_RATE", 1>>>>}
=============================================================================

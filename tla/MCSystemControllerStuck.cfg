SPECIFICATION FairSpec
CHECK_DEADLOCK FALSE
CONSTANTS
  timing = timing
  records = records
  gpu = gpu
  profile = profile
  telemetry = telemetry
  Services = {timing, records, gpu}
  Required = {timing, records}
  Timing = timing
  Records = records
  Domains = {profile, telemetry}
  Profile = profile
  Owner <- MCOwner
  Publisher <- MCPublisher
  Plans <- ExportFails
PROPERTIES FailedExportEnds
